---------------------------- MODULE Spec2Model ----------------------------
(***************************************************************************)
(* A model of the UpCloud metrics receiver (receiver/upcloudreceiver):     *)
(*   - the target resolver (scrape.go: resolve*UUIDs, applyExcludeUUIDs),  *)
(*   - the paginated discovery of the API client (client.go),              *)
(*   - the receiver lifecycle and polling loop (receiver.go) together with *)
(*     the scrape cycle it drives (scrape.go: scrapeMetrics),              *)
(*   - construction: credentials, Config.Validate, NewHTTPClient and       *)
(*     createMetricsReceiver (config.go, client.go, factory.go),           *)
(*   - metric descriptors (metric_descriptor.go), the emission of tabular  *)
(*     payloads (scrape.go: appendMetricsPayload) and the conversion of    *)
(*     load balancer snapshots (client.go).                                *)
(*                                                                         *)
(* Strings are sequences of one-character strings so that TrimSpace and    *)
(* sort.Strings are computed as the Go code computes them.                 *)
(***************************************************************************)
EXTENDS Integers, Sequences, FiniteSets, TLC

VARIABLES
    \* ---- target resolver, applied as a pure function (SpecResolve)
    rsPc, rsIn, rsOut,
    \* ---- ListManagedDatabaseServiceUUIDs against a backend (SpecList)
    lsPc, backend, limit, offset, seen, discovered, requests, pageLen,
    newItems, lsResult, discPayload,
    \* ---- receiver: configuration, Start/Shutdown, run loop (Spec)
    cfg, started, ctxDone, wg, pc, woke, retTo, delayFired, tickerOn, tickC,
    cycleNo, ticksTaken, inflight, dropped, cancelledInDelay,
    shPc, shWoke, shResult, doneClosed, callerDone,
    \* ---- the scrape cycle in progress (scrapeAndConsume / scrapeMetrics)
    cyc, targetUUIDs, idx, out, errs, fetched, discFailed, consumerCalls,
    logged, resolved,
    \* ---- construction: createMetricsReceiver, NewHTTPClient (SpecConfig)
    cfPc, cfIn, cfOut, cfHeader,
    \* ---- descriptorForMetric, applied as a pure function (SpecDescriptor)
    dsPc, dsIn, dsOut,
    \* ---- appendMetricsPayload on one fetched payload (SpecPayload)
    pmPc, pmIn, pmOut,
    \* ---- conversion of a load balancer snapshot (SpecSnapshot)
    snPc, snIn, snOut

resolveVars == <<rsPc, rsIn, rsOut>>
listVars == <<lsPc, backend, limit, offset, seen, discovered, requests,
              pageLen, newItems, lsResult, discPayload>>
loopVars == <<cfg, started, ctxDone, wg, pc, woke, retTo, delayFired,
              tickerOn, tickC, cycleNo, ticksTaken, inflight, dropped,
              cancelledInDelay>>
shutdownVars == <<shPc, shWoke, shResult, doneClosed, callerDone>>
cycleVars == <<cyc, targetUUIDs, idx, out, errs, fetched, discFailed,
               consumerCalls, logged, resolved>>
configVars == <<cfPc, cfIn, cfOut, cfHeader>>
descriptorVars == <<dsPc, dsIn, dsOut>>
payloadVars == <<pmPc, pmIn, pmOut>>
snapshotVars == <<snPc, snIn, snOut>>
metricVars == <<descriptorVars, payloadVars, snapshotVars>>
vars == <<configVars, metricVars, resolveVars, listVars, loopVars,
          shutdownVars, cycleVars>>

-----------------------------------------------------------------------------
(* Bounds of the model.                                                    *)

\* longest explicit identifier list tried on the resolver
MaxExplicit == 2
\* longest exclusion list tried on the resolver
MaxExclude == 2
\* most objects a discovery backend holds
MaxItems == 4
\* largest page size (discovery_limit) tried
MaxLimit == 2
\* most scrape cycles one receiver runs
MaxCycles == 3

-----------------------------------------------------------------------------
(* Strings.                                                                *)

sA == <<"a">>
sB == <<"b">>
sC == <<"c">>
sD == <<"d">>
sAPad == <<"a", " ">>
sPadA == <<" ", "a">>
sBlank == <<" ">>
sEmpty == <<>>

\* byte value of a character, the order sort.Strings compares by
Ord(c) ==
    CASE c = " " -> 32
      [] c = "a" -> 97
      [] c = "b" -> 98
      [] c = "c" -> 99
      [] c = "d" -> 100
      [] c = "-" -> 45
      [] c = "." -> 46
      [] c = "/" -> 47
      [] c = "0" -> 48
      [] c = "1" -> 49
      [] c = "2" -> 50
      [] c = "3" -> 51
      [] c = "4" -> 52
      [] c = "5" -> 53
      [] c = "6" -> 54
      [] c = "7" -> 55
      [] c = "8" -> 56
      [] c = "9" -> 57
      [] c = ":" -> 58
      [] c = "_" -> 95
      [] c = "e" -> 101
      [] c = "f" -> 102
      [] c = "g" -> 103
      [] c = "h" -> 104
      [] c = "i" -> 105
      [] c = "j" -> 106
      [] c = "k" -> 107
      [] c = "l" -> 108
      [] c = "m" -> 109
      [] c = "n" -> 110
      [] c = "o" -> 111
      [] c = "p" -> 112
      [] c = "q" -> 113
      [] c = "r" -> 114
      [] c = "s" -> 115
      [] c = "t" -> 116
      [] c = "u" -> 117
      [] c = "v" -> 118
      [] c = "w" -> 119
      [] c = "x" -> 120
      [] c = "y" -> 121
      [] c = "z" -> 122

Range(s) == {s[i] : i \in 1..Len(s)}

RECURSIVE TrimLeft(_)
TrimLeft(s) ==
    IF s # <<>> /\ Head(s) = " " THEN TrimLeft(Tail(s)) ELSE s

RECURSIVE TrimRight(_)
TrimRight(s) ==
    IF s # <<>> /\ s[Len(s)] = " "
    THEN TrimRight(SubSeq(s, 1, Len(s) - 1))
    ELSE s

\* strings.TrimSpace
TrimSpace(s) == TrimRight(TrimLeft(s))

\* s < t as Go compares strings (bytewise, lexicographic)
RECURSIVE StrLess(_, _)
StrLess(s, t) ==
    IF t = <<>> THEN FALSE
    ELSE IF s = <<>> THEN TRUE
    ELSE IF Ord(Head(s)) # Ord(Head(t)) THEN Ord(Head(s)) < Ord(Head(t))
    ELSE StrLess(Tail(s), Tail(t))

RECURSIVE InsertSorted(_, _)
InsertSorted(x, s) ==
    IF s = <<>> THEN <<x>>
    ELSE IF StrLess(Head(s), x) THEN <<Head(s)>> \o InsertSorted(x, Tail(s))
    ELSE <<x>> \o s

\* sort.Strings
RECURSIVE SortStrings(_)
SortStrings(s) ==
    IF s = <<>> THEN <<>> ELSE InsertSorted(Head(s), SortStrings(Tail(s)))

IsSorted(s) == \A i \in 1..Len(s) - 1 : ~StrLess(s[i + 1], s[i])

NoDuplicates(s) == \A i, j \in 1..Len(s) : i # j => s[i] # s[j]

\* every sequence over S of length at most n
SeqsUpTo(S, n) == UNION {[1..k -> S] : k \in 0..n}

-----------------------------------------------------------------------------
(* Target resolver.                                                        *)

\* dedupe keeps the first occurrence of every value, in order
RECURSIVE dedupeFrom(_, _, _)
dedupeFrom(values, seenSet, acc) ==
    IF values = <<>> THEN acc
    ELSE IF Head(values) \in seenSet
         THEN dedupeFrom(Tail(values), seenSet, acc)
         ELSE dedupeFrom(Tail(values), seenSet \cup {Head(values)},
                         Append(acc, Head(values)))

dedupe(values) == dedupeFrom(values, {}, <<>>)

\* the exclusion set applyExcludeUUIDs builds: trimmed entries, blanks skipped
excludedSet(exclude) ==
    {TrimSpace(exclude[i]) : i \in 1..Len(exclude)} \ {<<>>}

applyExcludeUUIDs(targets, exclude) ==
    LET t == dedupe(targets) IN
    IF t = <<>> THEN t
    ELSE SortStrings(SelectSeq(t, LAMBDA id : id \notin excludedSet(exclude)))

\* The result of a discovery call: err, or the identifiers it returned.
DiscErr == [err |-> TRUE, ids |-> <<>>]
DiscOk(ids) == [err |-> FALSE, ids |-> ids]

\* a faulty variant: a failed discovery drops the explicit identifiers as well
resolveUUIDs_abortOnError(c, disc) ==
    IF c.AutoDiscover /\ disc.err
    THEN [targets |-> <<>>, err |-> TRUE]
    ELSE [targets |-> applyExcludeUUIDs(
                          c.UUIDs \o (IF c.AutoDiscover THEN disc.ids ELSE <<>>),
                          c.ExcludeUUIDs),
          err |-> FALSE]

\* resolveManagedDatabaseUUIDs and resolveManagedLoadBalancerUUIDs: the two
\* differ only in the discovery call, whose result is the argument disc.
resolveUUIDs(c, disc) ==
    IF c.AutoDiscover
    THEN IF disc.err
         THEN [targets |-> applyExcludeUUIDs(c.UUIDs, c.ExcludeUUIDs),
               err |-> TRUE]
         ELSE [targets |-> applyExcludeUUIDs(c.UUIDs \o disc.ids,
                                             c.ExcludeUUIDs),
               err |-> FALSE]
    ELSE [targets |-> applyExcludeUUIDs(c.UUIDs, c.ExcludeUUIDs),
          err |-> FALSE]

resolveManagedDatabaseUUIDs(c, disc) == resolveUUIDs(c, disc)

resolveManagedLoadBalancerUUIDs(c, disc) == resolveUUIDs(c, disc)

-----------------------------------------------------------------------------
(* Discovery: identifier extraction and database pagination.               *)

\* One element of a JSON array of a discovery payload: an object with a
\* string "uuid" field (has), or anything else (no usable uuid field).
Obj(u) == [has |-> TRUE, uuid |-> u]
NoUUID == [has |-> FALSE, uuid |-> <<>>]

\* A decoded payload: a bare array (arrays = <<items>>), an object with an
\* optional own "uuid" string and its array-valued fields in the order the map
\* iteration visits them, or any other JSON value.
ArrayPayload(items) == [kind |-> "array", own |-> NoUUID, arrays |-> <<items>>]
ObjectPayload(own, arrays) == [kind |-> "object", own |-> own, arrays |-> arrays]
OtherPayload == [kind |-> "other", own |-> NoUUID, arrays |-> <<>>]

RECURSIVE usableUUIDs(_)
usableUUIDs(items) ==
    IF items = <<>> THEN <<>>
    ELSE LET it == Head(items) IN
         IF it.has /\ TrimSpace(it.uuid) # <<>>
         THEN <<TrimSpace(it.uuid)>> \o usableUUIDs(Tail(items))
         ELSE usableUUIDs(Tail(items))

extractUUIDsFromArray(items) == dedupe(usableUUIDs(items))

RECURSIVE concatExtracted(_)
concatExtracted(arrays) ==
    IF arrays = <<>> THEN <<>>
    ELSE extractUUIDsFromArray(Head(arrays)) \o concatExtracted(Tail(arrays))

extractUUIDs(payload) ==
    CASE payload.kind = "array" -> extractUUIDsFromArray(payload.arrays[1])
      [] payload.kind = "object" ->
            dedupe((IF payload.own.has
                    THEN <<TrimSpace(payload.own.uuid)>> ELSE <<>>)
                   \o concatExtracted(payload.arrays))
      [] OTHER -> <<>>

\* the identifiers of a page not seen on an earlier page, in page order
newOnPage(page, seenSet) == SelectSeq(page, LAMBDA id : id \notin seenSet)

\* a faulty variant: only a page without a new identifier ends the pagination
paginationStops_noProgressOnly(n, fresh, lim) == fresh = 0

\* a faulty variant: only a short page ends the pagination
paginationStops_shortPageOnly(n, fresh, lim) == n < lim

\* the break condition of the pagination loop
paginationStops(n, fresh, lim) == n < lim \/ fresh = 0

Min(a, b) == IF a < b THEN a ELSE b
Max(a, b) == IF a > b THEN a ELSE b
CeilDiv(a, b) == (a + b - 1) \div b

\* What the backend may hold: objects with identifiers, one of them padded
\* with a blank, an object with a blank uuid, an object without uuid.
BackendIds == {sA, sB, sC, sD}
RawItems == {Obj(sA), Obj(sB), Obj(sPadA), Obj(sBlank), NoUUID}

\* A "slice" backend serves [offset, offset+limit) of a fixed list.  An "any"
\* backend answers every request with some page of at most limit of the
\* objects it holds, and may so repeat objects of earlier pages; only the set
\* of objects it holds matters, so its list is kept without repetition.
SliceBackends ==
    {[mode |-> "slice", items |-> l] : l \in SeqsUpTo(RawItems, MaxItems)}

RECURSIVE SetToSortedSeq(_)
SetToSortedSeq(S) ==
    IF S = {} THEN <<>>
    ELSE LET m == CHOOSE x \in S : \A y \in S : ~StrLess(y, x) IN
         <<m>> \o SetToSortedSeq(S \ {m})

AnyBackends ==
    {[mode |-> "any",
      items |-> [i \in 1..Cardinality(S) |-> Obj(SetToSortedSeq(S)[i])]] :
        S \in {T \in SUBSET BackendIds : Cardinality(T) <= MaxItems}}

\* the pages the backend may answer the request (limit, offset) with
backendPages(b, lim, off) ==
    IF b.mode = "slice"
    THEN {SubSeq(b.items, off + 1, Min(off + lim, Len(b.items)))}
    ELSE SeqsUpTo(Range(b.items), lim)

ListIdle ==
    /\ lsPc = "idle" /\ backend = [mode |-> "none", items |-> <<>>]
    /\ limit = 0 /\ offset = 0 /\ seen = {} /\ discovered = <<>>
    /\ requests = 0 /\ pageLen = 0 /\ newItems = 0
    /\ lsResult = [err |-> FALSE, ids |-> <<>>]
    /\ discPayload = OtherPayload

\* ListManagedDatabaseServiceUUIDs is called with a positive limit (the
\* configuration is rejected otherwise) on a fresh seen/discovered/offset.
ListInit ==
    /\ lsPc = "loop"
    /\ backend \in SliceBackends \cup AnyBackends
    /\ limit \in 1..MaxLimit
    /\ offset = 0 /\ seen = {} /\ discovered = <<>>
    /\ requests = 0 /\ pageLen = 0 /\ newItems = 0
    /\ lsResult = [err |-> FALSE, ids |-> <<>>]
    /\ discPayload = OtherPayload

\* one iteration of the loop: the request succeeds and the page is folded in
ListPage ==
    /\ lsPc = "loop"
    /\ \E raw \in backendPages(backend, limit, offset) :
         LET page == extractUUIDs(ArrayPayload(raw))
             fresh == newOnPage(page, seen)
         IN /\ requests' = requests + 1
            /\ seen' = seen \cup Range(page)
            /\ discovered' = discovered \o fresh
            /\ pageLen' = Len(page)
            /\ newItems' = Len(fresh)
            /\ IF paginationStops(Len(page), Len(fresh), limit)
               THEN lsPc' = "sort" /\ offset' = offset
               ELSE lsPc' = "loop" /\ offset' = offset + limit
    /\ UNCHANGED <<backend, limit, lsResult, discPayload>>

\* one iteration of the loop: getJSON fails and the call returns nil, err
ListPageError ==
    /\ lsPc = "loop"
    /\ requests' = requests + 1
    /\ lsPc' = "returned"
    /\ lsResult' = [err |-> TRUE, ids |-> <<>>]
    /\ UNCHANGED <<backend, limit, offset, seen, discovered, pageLen, newItems,
                   discPayload>>

\* after the loop: sort.Strings(discovered); return discovered, nil
ListReturn ==
    /\ lsPc = "sort"
    /\ lsPc' = "returned"
    /\ lsResult' = [err |-> FALSE, ids |-> SortStrings(discovered)]
    /\ UNCHANGED <<backend, limit, offset, seen, discovered, requests,
                   pageLen, newItems, discPayload>>

\* dedupeSorted: of equal neighbours the first is kept
RECURSIVE dedupeSorted(_)
dedupeSorted(values) ==
    IF Len(values) <= 1 THEN values
    ELSE LET front == dedupeSorted(SubSeq(values, 1, Len(values) - 1)) IN
         IF values[Len(values)] = values[Len(values) - 1]
         THEN front ELSE Append(front, values[Len(values)])

\* ListManagedLoadBalancerUUIDs on the decoded body of the one response
ListManagedLoadBalancerUUIDs(payload) ==
    dedupeSorted(SortStrings(extractUUIDs(payload)))

\* the arrays of a sample payload
ItemArrays == SeqsUpTo(RawItems, MaxLimit)

\* the load balancer discovery is called; the body of the response is a
\* bare array, an object that wraps up to two arrays and may carry a uuid
\* of its own, or another JSON value
DiscoverInit ==
    /\ lsPc = "single"
    /\ backend = [mode |-> "none", items |-> <<>>]
    /\ limit = 0 /\ offset = 0 /\ seen = {} /\ discovered = <<>>
    /\ requests = 0 /\ pageLen = 0 /\ newItems = 0
    /\ lsResult = [err |-> FALSE, ids |-> <<>>]
    /\ \/ discPayload = OtherPayload
       \/ \E items \in ItemArrays : discPayload = ArrayPayload(items)
       \/ \E own \in {NoUUID, Obj(sB), Obj(sPadA), Obj(sBlank)} :
             \/ discPayload = ObjectPayload(own, <<>>)
             \/ \E x \in ItemArrays : discPayload = ObjectPayload(own, <<x>>)
             \/ \E x, y \in ItemArrays :
                   discPayload = ObjectPayload(own, <<x, y>>)

\* ListManagedLoadBalancerUUIDs: the request succeeds
ListLoadBalancers ==
    /\ lsPc = "single"
    /\ requests' = requests + 1
    /\ lsPc' = "returned"
    /\ lsResult' = [err |-> FALSE,
                    ids |-> ListManagedLoadBalancerUUIDs(discPayload)]
    /\ UNCHANGED <<backend, limit, offset, seen, discovered, pageLen, newItems,
                   discPayload>>

\* ListManagedLoadBalancerUUIDs: getJSON fails and the call returns nil, err
ListLoadBalancersError ==
    /\ lsPc = "single"
    /\ requests' = requests + 1
    /\ lsPc' = "returned"
    /\ lsResult' = [err |-> TRUE, ids |-> <<>>]
    /\ UNCHANGED <<backend, limit, offset, seen, discovered, pageLen, newItems,
                   discPayload>>

-----------------------------------------------------------------------------
(* The resolver as a pure function of configuration and discovery result.  *)

ExplicitPool == {sA, sB, sAPad}
ExcludePool == {sA, sAPad, sBlank}
\* what a discovery call may return: an error, or trimmed, non-blank,
\* distinct identifiers in ascending order
DiscoveryResults ==
    {DiscErr} \cup {DiscOk(SetToSortedSeq(S)) : S \in SUBSET {sA, sC}}

ResolveIdle ==
    /\ rsPc = "idle"
    /\ rsIn = [type |-> "none",
               c |-> [UUIDs |-> <<>>, ExcludeUUIDs |-> <<>>,
                      AutoDiscover |-> FALSE],
               disc |-> DiscOk(<<>>)]
    /\ rsOut = [targets |-> <<>>, err |-> FALSE]

ResolveInit ==
    /\ rsPc = "call"
    /\ rsIn \in [type : {"managed_database", "managed_load_balancer"},
                 c : [UUIDs : SeqsUpTo(ExplicitPool, MaxExplicit),
                      ExcludeUUIDs : SeqsUpTo(ExcludePool, MaxExclude),
                      AutoDiscover : BOOLEAN],
                 disc : DiscoveryResults]
    /\ rsOut = [targets |-> <<>>, err |-> FALSE]

ResolveDatabase ==
    /\ rsPc = "call" /\ rsIn.type = "managed_database"
    /\ rsOut' = resolveManagedDatabaseUUIDs(rsIn.c, rsIn.disc)
    /\ rsPc' = "done"
    /\ UNCHANGED rsIn

ResolveLoadBalancer ==
    /\ rsPc = "call" /\ rsIn.type = "managed_load_balancer"
    /\ rsOut' = resolveManagedLoadBalancerUUIDs(rsIn.c, rsIn.disc)
    /\ rsPc' = "done"
    /\ UNCHANGED rsIn

-----------------------------------------------------------------------------
(* Receiver: configuration.                                                *)

NoTargets == [Enabled |-> FALSE, UUIDs |-> <<>>, ExcludeUUIDs |-> <<>>,
              AutoDiscover |-> FALSE]

ReceiverIdle ==
    /\ cfg = [InitialDelay |-> 0, ManagedDatabases |-> NoTargets,
              ManagedLoadBalancers |-> NoTargets]
    /\ started = FALSE /\ ctxDone = FALSE /\ wg = 0 /\ pc = "none"
    /\ woke = "none" /\ retTo = "none" /\ delayFired = FALSE
    /\ tickerOn = FALSE /\ tickC = 0 /\ cycleNo = 0 /\ ticksTaken = 0
    /\ inflight = 0 /\ dropped = FALSE /\ cancelledInDelay = FALSE
    /\ shPc = "idle" /\ shWoke = "none" /\ shResult = "none"
    /\ doneClosed = FALSE /\ callerDone = FALSE
    /\ cyc = "idle" /\ targetUUIDs = <<>> /\ idx = 0 /\ out = <<>>
    /\ errs = <<>> /\ fetched = <<>> /\ discFailed = {}
    /\ consumerCalls = <<>> /\ logged = <<>> /\ resolved = {}

\* Validate, for the target blocks: at least one resource type is enabled.
ValidateTargets(c) ==
    c.ManagedDatabases.Enabled \/ c.ManagedLoadBalancers.Enabled

DatabaseBlocks ==
    { NoTargets,
      [Enabled |-> TRUE, UUIDs |-> <<sB, sA, sB>>, ExcludeUUIDs |-> <<>>,
       AutoDiscover |-> FALSE],
      [Enabled |-> TRUE, UUIDs |-> <<sB, sA>>, ExcludeUUIDs |-> <<sPadA>>,
       AutoDiscover |-> TRUE],
      [Enabled |-> TRUE, UUIDs |-> <<sAPad, sB>>, ExcludeUUIDs |-> <<sAPad>>,
       AutoDiscover |-> TRUE],
      [Enabled |-> TRUE, UUIDs |-> <<>>, ExcludeUUIDs |-> <<>>,
       AutoDiscover |-> TRUE] }

LoadBalancerBlocks ==
    { NoTargets,
      [Enabled |-> TRUE, UUIDs |-> <<sC>>, ExcludeUUIDs |-> <<>>,
       AutoDiscover |-> FALSE],
      [Enabled |-> TRUE, UUIDs |-> <<sD>>, ExcludeUUIDs |-> <<sD>>,
       AutoDiscover |-> TRUE] }

Configs ==
    {c \in [InitialDelay : {0, 1}, ManagedDatabases : DatabaseBlocks,
            ManagedLoadBalancers : LoadBalancerBlocks] : ValidateTargets(c)}

\* what the client's discovery calls may return in a cycle
DatabaseDiscovery == {DiscErr, DiscOk(<<>>), DiscOk(<<sA, sC>>)}
LoadBalancerDiscovery == {DiscErr, DiscOk(<<>>), DiscOk(<<sC>>)}

resourceTypeManagedDatabase == "managed_database"
resourceTypeManagedLoadBalancer == "managed_load_balancer"

Resource(t, u) == [type |-> t, uuid |-> u]
FetchError(t, u) == [kind |-> "fetch", type |-> t, uuid |-> u]
DiscoverError(t) == [kind |-> "discover", type |-> t, uuid |-> <<>>]
ConsumeError == [kind |-> "consume", type |-> "none", uuid |-> <<>>]

ReceiverInit ==
    /\ cfg \in Configs
    /\ started = FALSE /\ ctxDone = FALSE /\ wg = 0 /\ pc = "none"
    /\ woke = "none" /\ retTo = "none" /\ delayFired = FALSE
    /\ tickerOn = FALSE /\ tickC = 0 /\ cycleNo = 0 /\ ticksTaken = 0
    /\ inflight = 0 /\ dropped = FALSE /\ cancelledInDelay = FALSE
    /\ shPc = "idle" /\ shWoke = "none" /\ shResult = "none"
    /\ doneClosed = FALSE /\ callerDone = FALSE
    /\ cyc = "idle" /\ targetUUIDs = <<>> /\ idx = 0 /\ out = <<>>
    /\ errs = <<>> /\ fetched = <<>> /\ discFailed = {}
    /\ consumerCalls = <<>> /\ logged = <<>> /\ resolved = {}

-----------------------------------------------------------------------------
(* Receiver: Start, the run loop, Shutdown.                                *)
(*                                                                         *)
(* pc is the position of the goroutine Start spawns: "none" (not spawned), *)
(* "run" (at the top of run), "delay_wait" (blocked in the initial-delay   *)
(* select), "scrape" (inside scrapeAndConsume), "new_ticker", "tick_select"*)
(* (polling the select of the for loop), "tick_wait" (blocked in it),      *)
(* "exited".  A select statement is one step: it polls its cases when it   *)
(* is entered (the timer of time.After is created by that step and cannot  *)
(* have fired yet) and takes one of the ready cases, any of them when      *)
(* several are ready; with none ready the goroutine blocks, and the first  *)
(* event that makes a case ready wakes it with that case (woke).           *)

\* The host starts a component once, and never after shutting it down.
Start ==
    /\ ~started /\ shPc = "idle"
    /\ started' = TRUE
    /\ wg' = 1
    /\ pc' = "run"
    /\ UNCHANGED <<cfg, ctxDone, woke, retTo, delayFired, tickerOn, tickC,
                   cycleNo, ticksTaken, inflight, dropped, cancelledInDelay>>
    /\ UNCHANGED <<shutdownVars, cycleVars>>

\* entering scrapeAndConsume: a new cycle with an empty batch and no errors
ScrapeCall(ret) ==
    /\ cycleNo < MaxCycles
    /\ cycleNo' = cycleNo + 1
    /\ inflight' = inflight + 1 /\ dropped' = FALSE
    /\ retTo' = ret
    /\ pc' = "scrape"
    /\ cyc' = "db"
    /\ targetUUIDs' = <<>> /\ idx' = 0 /\ out' = <<>> /\ errs' = <<>>
    /\ fetched' = <<>> /\ discFailed' = {} /\ consumerCalls' = <<>>
    /\ logged' = <<>> /\ resolved' = {}

\* a faulty variant: the first scrape runs in a goroutine of its own
FirstScrape_async ==
    /\ cycleNo < MaxCycles
    /\ cycleNo' = cycleNo + 1
    /\ inflight' = inflight + 1 /\ dropped' = FALSE
    /\ retTo' = "new_ticker"
    /\ pc' = "new_ticker"
    /\ cyc' = "db"
    /\ targetUUIDs' = <<>> /\ idx' = 0 /\ out' = <<>> /\ errs' = <<>>
    /\ fetched' = <<>> /\ discFailed' = {} /\ consumerCalls' = <<>>
    /\ logged' = <<>> /\ resolved' = {}

\* the immediate first scrape after the initial delay
FirstScrape == ScrapeCall("new_ticker")

\* the scrape of the ticker case
TickScrape == ScrapeCall("tick_select")

\* run returns: the deferred ticker.Stop and wg.Done
RunExit ==
    /\ pc' = "exited"
    /\ wg' = 0
    /\ tickerOn' = FALSE
    /\ UNCHANGED <<cycleNo, inflight, dropped, retTo, cycleVars>>

\* a faulty variant: the initial delay is not honoured
RunEnter_noDelay ==
    /\ pc = "run"
    /\ FirstScrape
    /\ UNCHANGED <<cfg, started, ctxDone, wg, woke, delayFired, tickerOn,
                   tickC, ticksTaken, cancelledInDelay, shutdownVars>>

\* the top of run: the initial-delay select is entered, or skipped
RunEnter ==
    /\ pc = "run"
    /\ IF cfg.InitialDelay > 0
       THEN IF ctxDone
            THEN RunExit
            ELSE /\ pc' = "delay_wait"
                 /\ UNCHANGED <<wg, tickerOn, cycleNo, inflight, dropped, retTo,
                                cycleVars>>
       ELSE FirstScrape /\ UNCHANGED <<wg, tickerOn>>
    /\ UNCHANGED <<cfg, started, ctxDone, woke, delayFired, tickC,
                   ticksTaken, cancelledInDelay, shutdownVars>>

\* the timer of time.After(InitialDelay) fires
TimerFires ==
    /\ pc = "delay_wait" /\ ~delayFired
    /\ delayFired' = TRUE
    /\ woke' = IF woke = "none" THEN "timer" ELSE woke
    /\ UNCHANGED <<cfg, started, ctxDone, wg, pc, retTo, tickerOn, tickC,
                   cycleNo, ticksTaken, inflight, dropped, cancelledInDelay>>
    /\ UNCHANGED <<shutdownVars, cycleVars>>

\* the blocked initial-delay select resumes with the case that woke it
RunDelayWake ==
    /\ pc = "delay_wait" /\ woke # "none"
    /\ woke' = "none"
    /\ IF woke = "done"
       THEN RunExit
       ELSE FirstScrape /\ UNCHANGED <<wg, tickerOn>>
    /\ UNCHANGED <<cfg, started, ctxDone, delayFired, tickC, ticksTaken,
                   cancelledInDelay, shutdownVars>>

\* a faulty variant: run returns after the first scrape instead of looping
RunNewTicker_return ==
    /\ pc = "new_ticker"
    /\ RunExit
    /\ UNCHANGED <<cfg, started, ctxDone, woke, delayFired, tickC,
                   ticksTaken, cancelledInDelay, shutdownVars>>

\* ticker := time.NewTicker(CollectionInterval)
RunNewTicker ==
    /\ pc = "new_ticker"
    /\ tickerOn' = TRUE
    /\ pc' = "tick_select"
    /\ UNCHANGED <<cfg, started, ctxDone, wg, woke, retTo, delayFired, tickC,
                   cycleNo, ticksTaken, inflight, dropped, cancelledInDelay>>
    /\ UNCHANGED <<shutdownVars, cycleVars>>

\* a faulty variant: the ctx.Done case breaks out of the select only
RunSelectDone_break ==
    /\ pc = "tick_select" /\ ctxDone
    /\ UNCHANGED vars

\* the select of the loop takes the ctx.Done case
RunSelectDone ==
    /\ pc = "tick_select" /\ ctxDone
    /\ RunExit
    /\ UNCHANGED <<cfg, started, ctxDone, woke, delayFired, tickC,
                   ticksTaken, cancelledInDelay, shutdownVars>>

\* the select of the loop takes the tick buffered in ticker.C
RunSelectTick ==
    /\ pc = "tick_select" /\ tickC = 1
    /\ tickC' = 0
    /\ ticksTaken' = ticksTaken + 1
    /\ TickScrape
    /\ UNCHANGED <<cfg, started, ctxDone, wg, woke, delayFired, tickerOn,
                   cancelledInDelay, shutdownVars>>

\* the select of the loop finds no case ready and blocks
RunSelectPark ==
    /\ pc = "tick_select" /\ ~ctxDone /\ tickC = 0
    /\ pc' = "tick_wait"
    /\ UNCHANGED <<cfg, started, ctxDone, wg, woke, retTo, delayFired,
                   tickerOn, tickC, cycleNo, ticksTaken, inflight, dropped,
                   cancelledInDelay>>
    /\ UNCHANGED <<shutdownVars, cycleVars>>

\* the blocked select of the loop resumes with the case that woke it
RunTickWake ==
    /\ pc = "tick_wait" /\ woke # "none"
    /\ woke' = "none"
    /\ IF woke = "done"
       THEN RunExit /\ UNCHANGED ticksTaken
       ELSE /\ ticksTaken' = ticksTaken + 1
            /\ TickScrape
            /\ UNCHANGED <<wg, tickerOn>>
    /\ UNCHANGED <<cfg, started, ctxDone, delayFired, tickC,
                   cancelledInDelay, shutdownVars>>

\* ticks delivered and not yet taken by the loop
pendingTicks == tickC + (IF woke = "tick" THEN 1 ELSE 0)

\* a faulty variant: ticker.C queues the ticks that are not taken at once
Tick_queueing ==
    /\ tickerOn
    /\ cycleNo + pendingTicks < MaxCycles
    /\ IF pc = "tick_wait" /\ woke = "none"
       THEN woke' = "tick" /\ tickC' = tickC
       ELSE tickC' = tickC + 1 /\ woke' = woke
    /\ UNCHANGED <<cfg, started, ctxDone, wg, pc, retTo, delayFired,
                   tickerOn, cycleNo, ticksTaken, inflight, dropped,
                   cancelledInDelay>>
    /\ UNCHANGED <<shutdownVars, cycleVars>>

\* The ticker fires: the tick goes to the blocked loop, else into the
\* one-element buffer of ticker.C, else it is dropped.  dropped records
\* that a tick was dropped while the cycle in progress was running; any
\* number of further ticks of that cycle are dropped in the same way.
Tick ==
    /\ tickerOn
    /\ IF pc = "tick_wait" /\ woke = "none"
       THEN /\ cycleNo + pendingTicks < MaxCycles
            /\ woke' = "tick" /\ tickC' = tickC /\ dropped' = dropped
       ELSE IF tickC = 0
            THEN /\ cycleNo + pendingTicks < MaxCycles
                 /\ tickC' = 1 /\ woke' = woke /\ dropped' = dropped
            ELSE /\ dropped' = (dropped \/ pc = "scrape")
                 /\ UNCHANGED <<tickC, woke>>
    /\ UNCHANGED <<cfg, started, ctxDone, wg, pc, retTo, delayFired,
                   tickerOn, cycleNo, ticksTaken, inflight, cancelledInDelay>>
    /\ UNCHANGED <<shutdownVars, cycleVars>>

\* Shutdown up to its select: r.cancel() when Start has set it, and the
\* goroutine that waits for the WaitGroup is spawned.
ShutdownCall ==
    /\ shPc = "idle"
    /\ shPc' = "select"
    /\ IF started
       THEN /\ ctxDone' = TRUE
            /\ woke' = IF pc \in {"delay_wait", "tick_wait"} /\ woke = "none"
                       THEN "done" ELSE woke
            /\ cancelledInDelay' =
                  (/\ cfg.InitialDelay > 0
                   /\ pc \in {"run", "delay_wait"}
                   /\ ~delayFired)
       ELSE UNCHANGED <<ctxDone, woke, cancelledInDelay>>
    /\ UNCHANGED <<cfg, started, wg, pc, retTo, delayFired, tickerOn, tickC,
                   cycleNo, ticksTaken, inflight, dropped>>
    /\ UNCHANGED <<shWoke, shResult, doneClosed, callerDone, cycleVars>>

\* the waiting goroutine: r.wg.Wait() returns and done is closed
ShutdownWaiter ==
    /\ shPc \in {"select", "parked"} /\ ~doneClosed
    /\ wg = 0
    /\ doneClosed' = TRUE
    /\ shWoke' = IF shPc = "parked" /\ shWoke = "none" THEN "done" ELSE shWoke
    /\ UNCHANGED <<shPc, shResult, callerDone, loopVars, cycleVars>>

\* the context the caller of Shutdown passed is cancelled or times out
CallerDeadline ==
    /\ ~callerDone /\ shPc # "returned"
    /\ callerDone' = TRUE
    /\ shWoke' = IF shPc = "parked" /\ shWoke = "none" THEN "ctx" ELSE shWoke
    /\ UNCHANGED <<shPc, shResult, doneClosed, loopVars, cycleVars>>

\* the select of Shutdown takes the ctx.Done case: return ctx.Err()
ShutdownSelectCtx ==
    /\ shPc = "select" /\ callerDone
    /\ shPc' = "returned"
    /\ shResult' = "ctxErr"
    /\ UNCHANGED <<shWoke, doneClosed, callerDone, loopVars, cycleVars>>

\* a faulty variant: Shutdown does not wait for done
ShutdownSelectDone_noWait ==
    /\ shPc = "select"
    /\ shPc' = "returned"
    /\ shResult' = "nil"
    /\ UNCHANGED <<shWoke, doneClosed, callerDone, loopVars, cycleVars>>

\* the select of Shutdown takes the done case: return nil
ShutdownSelectDone ==
    /\ shPc = "select" /\ doneClosed
    /\ shPc' = "returned"
    /\ shResult' = "nil"
    /\ UNCHANGED <<shWoke, doneClosed, callerDone, loopVars, cycleVars>>

\* the select of Shutdown finds no case ready and blocks
ShutdownSelectPark ==
    /\ shPc = "select" /\ ~callerDone /\ ~doneClosed
    /\ shPc' = "parked"
    /\ UNCHANGED <<shWoke, shResult, doneClosed, callerDone, loopVars,
                   cycleVars>>

\* the blocked select of Shutdown resumes with the case that woke it
ShutdownWake ==
    /\ shPc = "parked" /\ shWoke # "none"
    /\ shPc' = "returned"
    /\ shResult' = IF shWoke = "done" THEN "nil" ELSE "ctxErr"
    /\ shWoke' = "none"
    /\ UNCHANGED <<doneClosed, callerDone, loopVars, cycleVars>>

-----------------------------------------------------------------------------
(* The scrape cycle: scrapeAndConsume and scrapeMetrics.                   *)
(*                                                                         *)
(* cyc is the position inside scrapeAndConsume: "idle" (not in a cycle),   *)
(* "db" and "lb" (at the block of a resource type), "db_fetch" and         *)
(* "lb_fetch" (in the loop over targetUUIDs, idx the next target),         *)
(* "decide" (scrapeMetrics is about to return), "consume" (inside          *)
(* ConsumeMetrics).  fetched, discFailed, resolved (the target list each   *)
(* enabled resource type was resolved to), consumerCalls and logged record *)
(* what the cycle did; the next cycle starts them afresh.                  *)

loopOnlyVars == <<cfg, started, ctxDone, wg, woke, delayFired, tickerOn,
                  tickC, ticksTaken, cancelledInDelay, dropped, cycleNo, retTo>>

\* a faulty variant: a cycle that collected an error ends the polling loop
ScrapeReturn_stopOnError ==
    /\ cyc' = "idle"
    /\ inflight' = inflight - 1
    /\ pc' = IF errs # <<>> THEN "exited" ELSE retTo

\* scrapeAndConsume returns to the statement after its call in run
ScrapeReturn ==
    /\ cyc' = "idle"
    /\ inflight' = inflight - 1
    /\ pc' = retTo

\* the block of one resource type up to its loop: the targets are resolved,
\* with the discovery call when auto-discovery is on
ResolveTargets(t, block, results, here, loop, next) ==
    /\ cyc = here
    /\ IF ~block.Enabled
       THEN /\ cyc' = next
            /\ UNCHANGED <<targetUUIDs, idx, errs, discFailed, resolved>>
       ELSE \E disc \in (IF block.AutoDiscover THEN results ELSE {DiscOk(<<>>)}) :
              LET r == IF t = resourceTypeManagedDatabase
                       THEN resolveManagedDatabaseUUIDs(block, disc)
                       ELSE resolveManagedLoadBalancerUUIDs(block, disc)
              IN /\ targetUUIDs' = r.targets
                 /\ idx' = 1
                 /\ errs' = IF r.err THEN Append(errs, DiscoverError(t)) ELSE errs
                 /\ discFailed' = IF block.AutoDiscover /\ disc.err
                                  THEN discFailed \cup {t} ELSE discFailed
                 /\ resolved' = resolved \cup
                                   {[type |-> t, targets |-> r.targets]}
                 /\ cyc' = loop
    /\ UNCHANGED <<out, fetched, consumerCalls, logged, pc, inflight>>
    /\ UNCHANGED <<loopOnlyVars, shutdownVars>>

ResolveDatabases ==
    ResolveTargets(resourceTypeManagedDatabase, cfg.ManagedDatabases,
                   DatabaseDiscovery, "db", "db_fetch", "lb")

ResolveLoadBalancers ==
    ResolveTargets(resourceTypeManagedLoadBalancer, cfg.ManagedLoadBalancers,
                   LoadBalancerDiscovery, "lb", "lb_fetch", "decide")

\* a faulty variant: the loop ranges over the configured identifiers instead
\* of the resolved targets
FetchTarget_configured(t, here) ==
    LET uuids == IF t = resourceTypeManagedDatabase
                 THEN cfg.ManagedDatabases.UUIDs
                 ELSE cfg.ManagedLoadBalancers.UUIDs
    IN
    /\ cyc = here /\ idx <= Len(uuids)
    /\ fetched' = Append(fetched, Resource(t, uuids[idx]))
    /\ \E ok \in BOOLEAN :
         IF ok
         THEN out' = Append(out, Resource(t, uuids[idx])) /\ errs' = errs
         ELSE errs' = Append(errs, FetchError(t, uuids[idx])) /\ out' = out
    /\ idx' = idx + 1
    /\ UNCHANGED <<cyc, targetUUIDs, discFailed, consumerCalls, logged, pc,
                   inflight, resolved>>
    /\ UNCHANGED <<loopOnlyVars, shutdownVars>>

\* a faulty variant: a failed fetch ends the loop over targetUUIDs
FetchTarget_stopOnError(t, here) ==
    /\ cyc = here /\ idx <= Len(targetUUIDs)
    /\ LET uuid == targetUUIDs[idx] IN
         /\ fetched' = Append(fetched, Resource(t, uuid))
         /\ \E ok \in BOOLEAN :
              IF ok
              THEN /\ out' = Append(out, Resource(t, uuid)) /\ errs' = errs
                   /\ idx' = idx + 1
              ELSE /\ errs' = Append(errs, FetchError(t, uuid)) /\ out' = out
                   /\ idx' = Len(targetUUIDs) + 1
    /\ UNCHANGED <<cyc, targetUUIDs, discFailed, consumerCalls, logged, pc,
                   inflight, resolved>>
    /\ UNCHANGED <<loopOnlyVars, shutdownVars>>

\* one iteration of a loop over targetUUIDs: the metrics of the target are
\* fetched; a failure adds an error, a success a resource record
\* (appendMetricsPayload)
FetchTarget(t, here) ==
    /\ cyc = here /\ idx <= Len(targetUUIDs)
    /\ LET uuid == targetUUIDs[idx] IN
         /\ fetched' = Append(fetched, Resource(t, uuid))
         /\ \E ok \in BOOLEAN :
              IF ok
              THEN out' = Append(out, Resource(t, uuid)) /\ errs' = errs
              ELSE errs' = Append(errs, FetchError(t, uuid)) /\ out' = out
    /\ idx' = idx + 1
    /\ UNCHANGED <<cyc, targetUUIDs, discFailed, consumerCalls, logged, pc,
                   inflight, resolved>>
    /\ UNCHANGED <<loopOnlyVars, shutdownVars>>

FetchDatabase == FetchTarget(resourceTypeManagedDatabase, "db_fetch")

FetchLoadBalancer == FetchTarget(resourceTypeManagedLoadBalancer, "lb_fetch")

\* the loop over targetUUIDs ends
TargetsDone(here, next) ==
    /\ cyc = here /\ idx > Len(targetUUIDs)
    /\ cyc' = next
    /\ UNCHANGED <<targetUUIDs, idx, out, errs, fetched, discFailed,
                   consumerCalls, logged, pc, inflight, resolved>>
    /\ UNCHANGED <<loopOnlyVars, shutdownVars>>

DatabasesDone == TargetsDone("db_fetch", "lb")

LoadBalancersDone == TargetsDone("lb_fetch", "decide")

\* a faulty variant: the batch is handed on without the check for an empty batch
Decide_noEmptyCheck ==
    /\ cyc = "decide"
    /\ IF errs # <<>>
       THEN /\ logged' = Append(logged, [msg |-> "scrape", errs |-> errs])
            /\ ScrapeReturn
            /\ UNCHANGED consumerCalls
       ELSE /\ consumerCalls' = Append(consumerCalls, out)
            /\ cyc' = "consume"
            /\ UNCHANGED <<logged, pc, inflight>>
    /\ UNCHANGED <<targetUUIDs, idx, out, errs, fetched, discFailed, resolved>>
    /\ UNCHANGED <<loopOnlyVars, shutdownVars>>

\* scrapeMetrics returns out and the joined errors; scrapeAndConsume logs
\* the error and returns, or returns on an empty batch, or calls the consumer
Decide ==
    /\ cyc = "decide"
    /\ IF errs # <<>>
       THEN /\ logged' = Append(logged, [msg |-> "scrape", errs |-> errs])
            /\ ScrapeReturn
            /\ UNCHANGED consumerCalls
       ELSE IF out = <<>>
            THEN /\ ScrapeReturn
                 /\ UNCHANGED <<logged, consumerCalls>>
            ELSE /\ consumerCalls' = Append(consumerCalls, out)
                 /\ cyc' = "consume"
                 /\ UNCHANGED <<logged, pc, inflight>>
    /\ UNCHANGED <<targetUUIDs, idx, out, errs, fetched, discFailed, resolved>>
    /\ UNCHANGED <<loopOnlyVars, shutdownVars>>

\* ConsumeMetrics returns; its error is logged
ConsumeReturns ==
    /\ cyc = "consume"
    /\ \E ok \in BOOLEAN :
         logged' = IF ok THEN logged
                   ELSE Append(logged, [msg |-> "consume",
                                        errs |-> <<ConsumeError>>])
    /\ ScrapeReturn
    /\ UNCHANGED <<targetUUIDs, idx, out, errs, fetched, discFailed,
                   consumerCalls, resolved>>
    /\ UNCHANGED <<loopOnlyVars, shutdownVars>>

-----------------------------------------------------------------------------
(* Construction: credentials.                                              *)

\* secret texts and credential file paths
secretText == <<"a">>
pathMissing == <<"m">>
pathBlankFile == <<"e">>
pathSecret == <<"s">>
pathSecretPad == <<" ", "s">>

\* os.ReadFile on the file system the model runs against: one file holds
\* the secret followed by a blank, one holds a blank only, no other exists
ReadFile(path) ==
    IF path = pathSecret THEN [err |-> FALSE, raw |-> <<"a", " ">>]
    ELSE IF path = pathBlankFile THEN [err |-> FALSE, raw |-> <<" ">>]
    ELSE [err |-> TRUE, raw |-> <<>>]

SecretErr == [err |-> TRUE, value |-> <<>>]
SecretOk(v) == [err |-> FALSE, value |-> v]

resolveSecret(inlineValue, filePath) ==
    LET value == TrimSpace(inlineValue)
        trimmedFile == TrimSpace(filePath)
    IN IF value # <<>> /\ trimmedFile # <<>> THEN SecretErr
       ELSE IF value # <<>> THEN SecretOk(value)
       ELSE IF trimmedFile = <<>> THEN SecretOk(<<>>)
       ELSE LET f == ReadFile(trimmedFile) IN
            IF f.err THEN SecretErr
            ELSE IF TrimSpace(f.raw) = <<>> THEN SecretErr
            ELSE SecretOk(TrimSpace(f.raw))

NoAuth == [bearerToken |-> <<>>, username |-> <<>>, password |-> <<>>]
AuthErr == [err |-> TRUE, auth |-> NoAuth]
AuthOk(a) == [err |-> FALSE, auth |-> a]

resolveRequestAuth(api) ==
    LET token == resolveSecret(api.Token, api.TokenFile) IN
    IF token.err THEN AuthErr
    ELSE IF token.value # <<>>
    THEN AuthOk([bearerToken |-> token.value, username |-> <<>>,
                 password |-> <<>>])
    ELSE LET password == resolveSecret(api.Password, api.PasswordFile) IN
         IF password.err THEN AuthErr
         ELSE AuthOk([bearerToken |-> <<>>, username |-> api.Username,
                      password |-> password.value])

\* requestAuth.apply: the Authorization header of a request
NoHeader == [scheme |-> "none", token |-> <<>>, username |-> <<>>,
             password |-> <<>>]
apply(a) ==
    IF TrimSpace(a.bearerToken) # <<>>
    THEN [scheme |-> "Bearer", token |-> a.bearerToken, username |-> <<>>,
          password |-> <<>>]
    ELSE [scheme |-> "Basic", token |-> <<>>, username |-> a.username,
          password |-> a.password]

\* APIConfig.Validate: "ok" or the setting the error names
APIConfigValidate(api) ==
    LET hasToken == TrimSpace(api.Token) # <<>>
        hasTokenFile == TrimSpace(api.TokenFile) # <<>>
        hasBearer == hasToken \/ hasTokenFile
        hasUsername == TrimSpace(api.Username) # <<>>
        hasPassword == TrimSpace(api.Password) # <<>>
        hasPasswordFile == TrimSpace(api.PasswordFile) # <<>>
        hasBasic == hasUsername \/ hasPassword \/ hasPasswordFile
    IN IF hasToken /\ hasTokenFile THEN "token_and_token_file"
       ELSE IF hasPassword /\ hasPasswordFile THEN "password_and_password_file"
       ELSE IF hasBearer /\ hasBasic THEN "bearer_and_basic"
       ELSE IF ~hasBearer /\ ~hasBasic THEN "no_authentication"
       ELSE IF hasBasic /\ ~hasUsername THEN "username_required"
       ELSE IF hasBasic /\ ~hasPassword /\ ~hasPasswordFile
            THEN "password_required"
       ELSE "ok"

-----------------------------------------------------------------------------
(* Construction: Config.Validate, NewHTTPClient, createMetricsReceiver.    *)

\* strings.Contains
Contains(s, sub) ==
    \E i \in 0..(Len(s) - Len(sub)) : SubSeq(s, i + 1, i + Len(sub)) = sub

uuidPlaceholder == <<"{", "u", "u", "i", "d", "}">>
templateWithPlaceholder == <<"/">> \o uuidPlaceholder \o <<"/", "m">>
templateStatic == <<"/", "u", "u", "i", "d", "/", "m">>

endpointAbsolute == <<"h", ":", "/", "/", "x">>
endpointRelative == <<"x">>
discoveryPath == <<"/", "d">>

\* url.ParseRequestURI fails on an empty string, on a missing scheme name
\* and on a string that neither starts with "/" nor has a scheme
ParseRequestURIFails(e) ==
    \/ e = <<>>
    \/ Head(e) = ":"
    \/ (Head(e) # "/" /\ ":" \notin Range(e))

\* url.Parse fails on a missing scheme name
urlParseFails(e) == e # <<>> /\ Head(e) = ":"

RECURSIVE TrimRightSlash(_)
TrimRightSlash(s) ==
    IF s # <<>> /\ s[Len(s)] = "/"
    THEN TrimRightSlash(SubSeq(s, 1, Len(s) - 1))
    ELSE s

\* an enabled block must name identifiers, unless it discovers them
identifiersMissing(block) ==
    block.Enabled /\ Len(block.UUIDs) = 0 /\ ~block.AutoDiscover

\* the settings of auto-discovery: a discovery path, and for the paginated
\* discovery of databases a page size above zero
ValidateDiscovery(c) ==
    IF /\ c.ManagedDatabases.Enabled /\ c.ManagedDatabases.AutoDiscover
       /\ TrimSpace(c.ManagedDatabases.DiscoveryPath) = <<>>
    THEN "managed_databases.discovery_path"
    ELSE IF /\ c.ManagedDatabases.Enabled /\ c.ManagedDatabases.AutoDiscover
            /\ c.ManagedDatabases.DiscoveryLimit <= 0
    THEN "managed_databases.discovery_limit"
    ELSE IF /\ c.ManagedLoadBalancers.Enabled
            /\ c.ManagedLoadBalancers.AutoDiscover
            /\ TrimSpace(c.ManagedLoadBalancers.DiscoveryPath) = <<>>
    THEN "managed_load_balancers.discovery_path"
    ELSE "ok"

\* the load balancer block is enabled with a template without {uuid}
templateInvalid(c) ==
    /\ c.ManagedLoadBalancers.Enabled
    /\ ~Contains(c.ManagedLoadBalancers.MetricsPathTemplate, uuidPlaceholder)

\* Config.Validate: "ok" or the setting the error names
Validate(c) ==
    IF c.CollectionInterval <= 0 THEN "collection_interval"
    ELSE IF c.InitialDelay < 0 THEN "initial_delay"
    ELSE IF TrimSpace(c.API.Endpoint) = <<>> THEN "api.endpoint"
    ELSE IF ParseRequestURIFails(c.API.Endpoint) THEN "api.endpoint"
    ELSE IF APIConfigValidate(c.API) # "ok" THEN APIConfigValidate(c.API)
    ELSE IF c.API.Timeout <= 0 THEN "api.timeout"
    ELSE IF ~c.ManagedDatabases.Enabled /\ ~c.ManagedLoadBalancers.Enabled
         THEN "no_resource_enabled"
    ELSE IF identifiersMissing(c.ManagedDatabases)
         THEN "managed_databases.uuids"
    ELSE IF identifiersMissing(c.ManagedLoadBalancers)
         THEN "managed_load_balancers.uuids"
    ELSE IF ValidateDiscovery(c) # "ok" THEN ValidateDiscovery(c)
    ELSE IF templateInvalid(c)
         THEN "managed_load_balancers.metrics_path_template"
    ELSE "ok"

ClientErr == [err |-> TRUE, auth |-> NoAuth, template |-> <<>>]

NewHTTPClient(api, loadBalancerPathTemplate) ==
    IF urlParseFails(TrimRightSlash(api.Endpoint)) THEN ClientErr
    ELSE LET a == resolveRequestAuth(api) IN
         IF a.err THEN ClientErr
         ELSE [err |-> FALSE, auth |-> a.auth,
               template |-> loadBalancerPathTemplate]

NoReceiver(why) == [err |-> TRUE, why |-> why, receiver |-> FALSE,
                    client |-> ClientErr]

\* a faulty variant: the receiver is built without validating the settings
createMetricsReceiver_noValidate(c) ==
    LET client == NewHTTPClient(c.API,
                                c.ManagedLoadBalancers.MetricsPathTemplate)
    IN IF client.err THEN NoReceiver("client")
       ELSE [err |-> FALSE, why |-> "ok", receiver |-> TRUE,
             client |-> client]

createMetricsReceiver(c) ==
    IF Validate(c) # "ok" THEN NoReceiver(Validate(c))
    ELSE LET client == NewHTTPClient(c.API,
                                     c.ManagedLoadBalancers.MetricsPathTemplate)
         IN IF client.err THEN NoReceiver("client")
            ELSE [err |-> FALSE, why |-> "ok", receiver |-> TRUE,
                  client |-> client]

-----------------------------------------------------------------------------
(* Construction: the settings tried, and the steps.                        *)

DefaultAPI ==
    [Endpoint |-> endpointAbsolute, Token |-> secretText, TokenFile |-> <<>>,
     Username |-> <<>>, Password |-> <<>>, PasswordFile |-> <<>>,
     Timeout |-> 1]

DefaultDatabases ==
    [Enabled |-> TRUE, UUIDs |-> <<>>, AutoDiscover |-> TRUE,
     DiscoveryPath |-> discoveryPath, DiscoveryLimit |-> 1]

DefaultLoadBalancers ==
    [Enabled |-> FALSE, UUIDs |-> <<>>, AutoDiscover |-> FALSE,
     DiscoveryPath |-> discoveryPath,
     MetricsPathTemplate |-> templateWithPlaceholder]

DefaultConfig ==
    [CollectionInterval |-> 1, InitialDelay |-> 1, API |-> DefaultAPI,
     ManagedDatabases |-> DefaultDatabases,
     ManagedLoadBalancers |-> DefaultLoadBalancers]

\* the credentials tried: every field absent or set, the inline token also
\* blank, the token file also missing, blank, or named with a leading blank
Credentials ==
    [Token : {<<>>, sBlank, secretText},
     TokenFile : {<<>>, pathMissing, pathBlankFile, pathSecretPad},
     Username : {<<>>, <<"u">>},
     Password : {<<>>, secretText},
     PasswordFile : {<<>>, pathSecret}]

withCredentials(api, cr) ==
    [api EXCEPT !.Token = cr.Token, !.TokenFile = cr.TokenFile,
                !.Username = cr.Username, !.Password = cr.Password,
                !.PasswordFile = cr.PasswordFile]

DatabaseSettings ==
    [Enabled : BOOLEAN, UUIDs : {<<>>, <<sA>>}, AutoDiscover : BOOLEAN,
     DiscoveryPath : {<<>>, discoveryPath}, DiscoveryLimit : {0, 1}]

LoadBalancerSettings ==
    [Enabled : BOOLEAN, UUIDs : {<<>>, <<sC>>}, AutoDiscover : BOOLEAN,
     DiscoveryPath : {<<>>, discoveryPath},
     MetricsPathTemplate : {<<>>, templateStatic, templateWithPlaceholder}]

\* the settings NewHTTPClient is tried on
ClientConfigs ==
    {[DefaultConfig EXCEPT
        !.API = withCredentials([DefaultAPI EXCEPT !.Endpoint = e], cr)] :
        e \in {endpointAbsolute, endpointAbsolute \o <<"/">>, <<":">>},
        cr \in Credentials}

ConfigIdle ==
    /\ cfPc = "idle" /\ cfIn = DefaultConfig
    /\ cfOut = NoReceiver("none") /\ cfHeader = NoHeader

\* createMetricsReceiver is tried on every combination of the credentials
\* and the settings of the two resource types, with a collection interval
\* that is zero or positive
ConfigInit ==
    /\ cfPc = "config"
    /\ \E ci \in {0, 1}, cr \in Credentials, db \in DatabaseSettings,
          lb \in LoadBalancerSettings :
         cfIn = [CollectionInterval |-> ci, InitialDelay |-> 1,
                 API |-> withCredentials(DefaultAPI, cr),
                 ManagedDatabases |-> db, ManagedLoadBalancers |-> lb]
    /\ cfOut = NoReceiver("none") /\ cfHeader = NoHeader

ClientInit ==
    /\ cfPc = "api" /\ cfIn \in ClientConfigs
    /\ cfOut = NoReceiver("none") /\ cfHeader = NoHeader

\* the collector builds the receiver from the settings
CreateReceiver ==
    /\ cfPc = "config"
    /\ cfOut' = createMetricsReceiver(cfIn)
    /\ cfPc' = "created"
    /\ UNCHANGED <<cfIn, cfHeader>>

\* a client is built from the API settings alone
NewClient ==
    /\ cfPc = "api"
    /\ LET client == NewHTTPClient(cfIn.API,
                                   cfIn.ManagedLoadBalancers.MetricsPathTemplate)
       IN cfOut' = [err |-> client.err,
                    why |-> IF client.err THEN "client" ELSE "ok",
                    receiver |-> FALSE, client |-> client]
    /\ cfPc' = "created"
    /\ UNCHANGED <<cfIn, cfHeader>>

\* getJSON: a request of the client gets its Authorization header
SendRequest ==
    /\ cfPc \in {"created", "requested"} /\ ~cfOut.err
    /\ cfHeader' = apply(cfOut.client.auth)
    /\ cfPc' = "requested"
    /\ UNCHANGED <<cfIn, cfOut>>

-----------------------------------------------------------------------------
(* Metric descriptors (metric_descriptor.go).                              *)

Uppers == <<"A", "B", "C", "D", "E", "F", "G", "H", "I", "J", "K", "L", "M", "N", "O", "P", "Q", "R", "S", "T", "U", "V", "W", "X", "Y", "Z">>
Lowers == <<"a", "b", "c", "d", "e", "f", "g", "h", "i", "j", "k", "l", "m", "n", "o", "p", "q", "r", "s", "t", "u", "v", "w", "x", "y", "z">>
Digits == <<"0", "1", "2", "3", "4", "5", "6", "7", "8", "9">>

\* strings.ToLower
lowerOf(c) ==
    IF c \in Range(Uppers)
    THEN Lowers[CHOOSE i \in 1..Len(Uppers) : Uppers[i] = c]
    ELSE c
ToLower(s) == [i \in 1..Len(s) |-> lowerOf(s[i])]

\* strings.HasSuffix, strings.TrimSuffix
HasSuffix(s, suffix) ==
    /\ Len(s) >= Len(suffix)
    /\ SubSeq(s, Len(s) - Len(suffix) + 1, Len(s)) = suffix
TrimSuffix(s, suffix) ==
    IF HasSuffix(s, suffix) THEN SubSeq(s, 1, Len(s) - Len(suffix)) ELSE s

\* invalidMetricChars.ReplaceAllString(s, "."): every maximal run of
\* characters outside [a-z0-9] becomes one "."
RECURSIVE replaceInvalidRuns(_, _)
replaceInvalidRuns(s, inRun) ==
    IF s = <<>> THEN <<>>
    ELSE IF Head(s) \in Range(Lowers) \cup Range(Digits)
    THEN <<Head(s)>> \o replaceInvalidRuns(Tail(s), FALSE)
    ELSE (IF inRun THEN <<>> ELSE <<".">>) \o replaceInvalidRuns(Tail(s), TRUE)

\* strings.Trim(s, ".")
RECURSIVE TrimDots(_)
TrimDots(s) ==
    IF s # <<>> /\ Head(s) = "." THEN TrimDots(Tail(s))
    ELSE IF s # <<>> /\ s[Len(s)] = "." THEN TrimDots(SubSeq(s, 1, Len(s) - 1))
    ELSE s

\* strings.ReplaceAll(s, "..", "."), left to right without overlap
RECURSIVE collapseDots(_)
collapseDots(s) ==
    IF s = <<>> THEN <<>>
    ELSE IF Len(s) >= 2 /\ s[1] = "." /\ s[2] = "."
    THEN <<".">> \o collapseDots(SubSeq(s, 3, Len(s)))
    ELSE <<Head(s)>> \o collapseDots(Tail(s))

sanitizeMetricPath(metricKey) ==
    LET normalized == collapseDots(TrimDots(
                          replaceInvalidRuns(ToLower(metricKey), FALSE)))
    IN IF normalized = <<>> THEN <<"u", "n", "k", "n", "o", "w", "n">> ELSE normalized

\* the resource type as fmt.Sprintf writes it into a metric name
typeText(resourceType) ==
    CASE resourceType = resourceTypeManagedDatabase -> <<"m", "a", "n", "a", "g", "e", "d", "_", "d", "a", "t", "a", "b", "a", "s", "e">>
      [] resourceType = resourceTypeManagedLoadBalancer ->
            <<"m", "a", "n", "a", "g", "e", "d", "_", "l", "o", "a", "d", "_", "b", "a", "l", "a", "n", "c", "e", "r">>
      [] OTHER -> <<"s", "e", "r", "v", "e", "r">>

unitOne == <<"1">>
usageSuffix == <<"_", "u", "s", "a", "g", "e">>

metricDescriptor(name, unit, percentToRatio) ==
    [Name |-> name, Unit |-> unit, PercentToRatio |-> percentToRatio]

managedDatabaseMetricDescriptors ==
    (<<"c", "p", "u", "_", "u", "s", "a", "g", "e">> :> metricDescriptor(
        <<"u", "p", "c", "l", "o", "u", "d", ".", "m", "a", "n", "a", "g", "e", "d", "_", "d", "a", "t", "a", "b", "a", "s", "e", ".", "c", "p", "u", ".", "u", "t", "i", "l", "i", "z", "a", "t", "i", "o", "n">>, unitOne, TRUE))
    @@ (<<"m", "e", "m", "_", "u", "s", "a", "g", "e">> :> metricDescriptor(
        <<"u", "p", "c", "l", "o", "u", "d", ".", "m", "a", "n", "a", "g", "e", "d", "_", "d", "a", "t", "a", "b", "a", "s", "e", ".", "m", "e", "m", "o", "r", "y", ".", "u", "t", "i", "l", "i", "z", "a", "t", "i", "o", "n">>, unitOne, TRUE))
    @@ (<<"d", "i", "s", "k", "_", "u", "s", "a", "g", "e">> :> metricDescriptor(
        <<"u", "p", "c", "l", "o", "u", "d", ".", "m", "a", "n", "a", "g", "e", "d", "_", "d", "a", "t", "a", "b", "a", "s", "e", ".", "d", "i", "s", "k", ".", "u", "t", "i", "l", "i", "z", "a", "t", "i", "o", "n">>, unitOne, TRUE))
    @@ (<<"l", "o", "a", "d", "_", "a", "v", "e", "r", "a", "g", "e">> :> metricDescriptor(
        <<"u", "p", "c", "l", "o", "u", "d", ".", "m", "a", "n", "a", "g", "e", "d", "_", "d", "a", "t", "a", "b", "a", "s", "e", ".", "s", "y", "s", "t", "e", "m", ".", "l", "o", "a", "d", "_", "a", "v", "e", "r", "a", "g", "e">>, unitOne, FALSE))
    @@ (<<"d", "i", "s", "k", "i", "o", "_", "r", "e", "a", "d", "s">> :> metricDescriptor(
        <<"u", "p", "c", "l", "o", "u", "d", ".", "m", "a", "n", "a", "g", "e", "d", "_", "d", "a", "t", "a", "b", "a", "s", "e", ".", "d", "i", "s", "k", ".", "i", "o", ".", "r", "e", "a", "d", "_", "o", "p", "e", "r", "a", "t", "i", "o", "n", "s">>,
        <<"{", "o", "p", "e", "r", "a", "t", "i", "o", "n", "}", "/", "s">>, FALSE))
    @@ (<<"d", "i", "s", "k", "i", "o", "_", "w", "r", "i", "t", "e", "s">> :> metricDescriptor(
        <<"u", "p", "c", "l", "o", "u", "d", ".", "m", "a", "n", "a", "g", "e", "d", "_", "d", "a", "t", "a", "b", "a", "s", "e", ".", "d", "i", "s", "k", ".", "i", "o", ".", "w", "r", "i", "t", "e", "_", "o", "p", "e", "r", "a", "t", "i", "o", "n", "s">>,
        <<"{", "o", "p", "e", "r", "a", "t", "i", "o", "n", "}", "/", "s">>, FALSE))
    @@ (<<"n", "e", "t", "_", "r", "e", "c", "e", "i", "v", "e">> :> metricDescriptor(
        <<"u", "p", "c", "l", "o", "u", "d", ".", "m", "a", "n", "a", "g", "e", "d", "_", "d", "a", "t", "a", "b", "a", "s", "e", ".", "n", "e", "t", "w", "o", "r", "k", ".", "r", "e", "c", "e", "i", "v", "e">>, <<"B", "y", "/", "s">>, FALSE))
    @@ (<<"n", "e", "t", "_", "s", "e", "n", "d">> :> metricDescriptor(
        <<"u", "p", "c", "l", "o", "u", "d", ".", "m", "a", "n", "a", "g", "e", "d", "_", "d", "a", "t", "a", "b", "a", "s", "e", ".", "n", "e", "t", "w", "o", "r", "k", ".", "t", "r", "a", "n", "s", "m", "i", "t">>, <<"B", "y", "/", "s">>, FALSE))

managedLoadBalancerMetricDescriptors ==
    (<<"c", "p", "u", "_", "u", "s", "a", "g", "e">> :> metricDescriptor(
        <<"u", "p", "c", "l", "o", "u", "d", ".", "m", "a", "n", "a", "g", "e", "d", "_", "l", "o", "a", "d", "_", "b", "a", "l", "a", "n", "c", "e", "r", ".", "c", "p", "u", ".", "u", "t", "i", "l", "i", "z", "a", "t", "i", "o", "n">>, unitOne, TRUE))
    @@ (<<"m", "e", "m", "_", "u", "s", "a", "g", "e">> :> metricDescriptor(
        <<"u", "p", "c", "l", "o", "u", "d", ".", "m", "a", "n", "a", "g", "e", "d", "_", "l", "o", "a", "d", "_", "b", "a", "l", "a", "n", "c", "e", "r", ".", "m", "e", "m", "o", "r", "y", ".", "u", "t", "i", "l", "i", "z", "a", "t", "i", "o", "n">>, unitOne, TRUE))

\* the Sprintf of the two derived names
utilizationName(resourceType, base) ==
    <<"u", "p", "c", "l", "o", "u", "d", ".">> \o typeText(resourceType) \o <<".">>
        \o sanitizeMetricPath(base) \o <<".", "u", "t", "i", "l", "i", "z", "a", "t", "i", "o", "n">>
genericName(resourceType, metricKey) ==
    <<"u", "p", "c", "l", "o", "u", "d", ".">> \o typeText(resourceType) \o <<".">>
        \o sanitizeMetricPath(metricKey)

derivedDescriptor(resourceType, key) ==
    IF HasSuffix(key, usageSuffix)
    THEN metricDescriptor(
             utilizationName(resourceType, TrimSuffix(key, usageSuffix)),
             unitOne, TRUE)
    ELSE metricDescriptor(genericName(resourceType, key), unitOne, FALSE)

\* a faulty variant: both tables are consulted whatever the resource type
descriptorForMetric_anyTable(resourceType, metricKey) ==
    LET key == TrimSpace(metricKey) IN
    IF key \in DOMAIN managedDatabaseMetricDescriptors
    THEN managedDatabaseMetricDescriptors[key]
    ELSE IF key \in DOMAIN managedLoadBalancerMetricDescriptors
    THEN managedLoadBalancerMetricDescriptors[key]
    ELSE derivedDescriptor(resourceType, key)

descriptorForMetric(resourceType, metricKey) ==
    LET key == TrimSpace(metricKey) IN
    IF /\ resourceType = resourceTypeManagedDatabase
       /\ key \in DOMAIN managedDatabaseMetricDescriptors
    THEN managedDatabaseMetricDescriptors[key]
    ELSE IF /\ resourceType = resourceTypeManagedLoadBalancer
            /\ key \in DOMAIN managedLoadBalancerMetricDescriptors
    THEN managedLoadBalancerMetricDescriptors[key]
    ELSE derivedDescriptor(resourceType, key)

\* a faulty variant: the value is divided whatever the descriptor says
normalizeValue_always(descriptor, value) ==
    [n |-> value.n, d |-> value.d * 100]

\* metricDescriptor.normalizeValue on a value n/d
normalizeValue(descriptor, value) ==
    IF descriptor.PercentToRatio
    THEN [n |-> value.n, d |-> value.d * 100]
    ELSE value

\* ---- descriptorForMetric applied to a resource type and a raw key

ResourceTypes ==
    {resourceTypeManagedDatabase, resourceTypeManagedLoadBalancer, "server"}

MetricKeys ==
    DOMAIN managedDatabaseMetricDescriptors
    \cup {<<"f", "r", "o", "n", "t", "e", "n", "d", "_", "u", "s", "a", "g", "e">>, <<"b", "a", "c", "k", "e", "n", "d", "-", "c", "o", "n", "n", "e", "c", "t", "i", "o", "n", "s", ".", "t", "o", "t", "a", "l">>, <<"_", "u", "s", "a", "g", "e">>,
          <<"C", "p", "u", "_", "U", "s", "a", "g", "e">>, <<" ", "c", "p", "u", "_", "u", "s", "a", "g", "e">>, <<"m", "e", "m", "_", "u", "s", "a", "g", "e", " ">>, <<"x", "_", "u", "s", "a", "g", "e", " ">>, <<>>,
          <<".", ".">>, <<"a", "_", "_", "b">>, <<"u", "s", "a", "g", "e">>, <<"s", "e", "s", "s", "i", "o", "n", "s">>, <<"R", "e", "q", " ", "R", "a", "t", "e">>, <<"-", "_", "u", "s", "a", "g", "e">>,
          <<"n", "e", "t", ".", "s", "e", "n", "d">>}

NoDescriptor == metricDescriptor(<<>>, <<>>, FALSE)

DescriptorIdle ==
    /\ dsPc = "idle" /\ dsIn = [type |-> "none", key |-> <<>>]
    /\ dsOut = NoDescriptor

DescriptorInit ==
    /\ dsPc = "call"
    /\ dsIn \in [type : ResourceTypes, key : MetricKeys]
    /\ dsOut = NoDescriptor

DescribeMetric ==
    /\ dsPc = "call"
    /\ dsOut' = descriptorForMetric(dsIn.type, dsIn.key)
    /\ dsPc' = "done"
    /\ UNCHANGED dsIn

-----------------------------------------------------------------------------
(* Tabular payloads and their emission (scrape.go: appendMetricsPayload).  *)

\* rows of one tabular metric in the sample payloads
MaxRows == 2

\* cells of a decoded row ([]any): a float64, a json.Number or a string by
\* its text, an RFC 3339 string by the instant it names, and null
Float(n, d) == [kind |-> "float64", n |-> n, d |-> d]
Number(text) == [kind |-> "number", text |-> text]
Text(text) == [kind |-> "string", text |-> text]
Instant(t) == [kind |-> "time", t |-> t]
Null == [kind |-> "nil"]

Pow10(k) == IF k = 0 THEN 1 ELSE IF k = 1 THEN 10 ELSE IF k = 2 THEN 100 ELSE 1000

DigitValue(c) == (CHOOSE i \in 1..Len(Digits) : Digits[i] = c) - 1

RECURSIVE DigitsValue(_, _)
DigitsValue(s, acc) ==
    IF s = <<>> THEN acc ELSE DigitsValue(Tail(s), acc * 10 + DigitValue(Head(s)))

\* strconv.ParseFloat on texts of digits and ".": the value as n/d
ParseFloat(text) ==
    LET dots == {i \in 1..Len(text) : text[i] = "."}
        digits == SelectSeq(text, LAMBDA c : c \in Range(Digits))
        wellFormed == /\ \A i \in 1..Len(text) :
                            text[i] \in Range(Digits) \cup {"."}
                      /\ Cardinality(dots) <= 1
                      /\ digits # <<>>
        decimals == IF dots = {} THEN 0
                    ELSE Len(text) - (CHOOSE i \in dots : TRUE)
    IN IF wellFormed
       THEN [ok |-> TRUE, n |-> DigitsValue(digits, 0), d |-> Pow10(decimals)]
       ELSE [ok |-> FALSE, n |-> 0, d |-> 1]

toFloat64(v) ==
    CASE v.kind = "float64" -> [ok |-> TRUE, n |-> v.n, d |-> v.d]
      [] v.kind \in {"number", "string"} -> ParseFloat(v.text)
      [] OTHER -> [ok |-> FALSE, n |-> 0, d |-> 1]

\* extractTime: the instant of an RFC 3339 string, the current time otherwise
Now == [known |-> FALSE, at |-> 0]
extractTime(v) ==
    IF v.kind = "time" THEN [known |-> TRUE, at |-> v.t] ELSE Now

\* toAllowlist: the set of the trimmed, non-blank entries
toAllowlist(values) ==
    {TrimSpace(values[i]) : i \in {j \in 1..Len(values) :
                                      TrimSpace(values[j]) # <<>>}}

\* a faulty variant: the first non-numeric cell ends the points of the row
RECURSIVE rowPoints_stopAtNonNumeric(_, _, _, _, _, _)
rowPoints_stopAtNonNumeric(metricKey, metric, descriptor, row, timestamp, col) ==
    IF col > Len(metric.Cols) \/ col > Len(row) THEN <<>>
    ELSE LET value == toFloat64(row[col]) IN
         IF ~value.ok THEN <<>>
         ELSE <<[timestamp |-> timestamp,
                 value |-> normalizeValue(descriptor,
                               [n |-> value.n, d |-> value.d]),
                 metricName |-> metricKey,
                 series |-> metric.Cols[col],
                 normalization |-> descriptor.PercentToRatio]>>
              \o rowPoints_stopAtNonNumeric(metricKey, metric, descriptor,
                                            row, timestamp, col + 1)

\* the data points of one row, column col onwards (col counted from 1)
RECURSIVE rowPoints(_, _, _, _, _, _)
rowPoints(metricKey, metric, descriptor, row, timestamp, col) ==
    IF col > Len(metric.Cols) \/ col > Len(row) THEN <<>>
    ELSE LET value == toFloat64(row[col])
             rest == rowPoints(metricKey, metric, descriptor, row, timestamp,
                               col + 1)
         IN IF ~value.ok THEN rest
            ELSE <<[timestamp |-> timestamp,
                    value |-> normalizeValue(descriptor,
                                  [n |-> value.n, d |-> value.d]),
                    metricName |-> metricKey,
                    series |-> metric.Cols[col],
                    normalization |-> descriptor.PercentToRatio]>> \o rest

\* appendMetric: the metric records appended to dest (none or one)
appendMetric(metricKey, metric, resourceType) ==
    IF Len(metric.Cols) < 2 \/ Len(metric.Rows) = 0 THEN <<>>
    ELSE LET row == metric.Rows[Len(metric.Rows)] IN
         IF Len(row) < 2 THEN <<>>
         ELSE LET descriptor == descriptorForMetric(resourceType, metricKey)
              IN <<[Name |-> descriptor.Name, Description |-> metric.Title,
                    Unit |-> descriptor.Unit,
                    points |-> rowPoints(metricKey, metric, descriptor, row,
                                         extractTime(row[1]), 2)]>>

\* the orders in which a range over a Go map can visit its keys
Orders(S) ==
    {o \in [1..Cardinality(S) -> S] :
        \A i, j \in 1..Cardinality(S) : o[i] = o[j] => i = j}

RECURSIVE payloadMetrics(_, _, _, _, _)
payloadMetrics(payload, resourceType, allowed, order, i) ==
    IF i > Len(order) THEN <<>>
    ELSE LET metricKey == order[i]
             rest == payloadMetrics(payload, resourceType, allowed, order,
                                    i + 1)
         IN IF allowed # {} /\ metricKey \notin allowed THEN rest
            ELSE appendMetric(metricKey, payload[metricKey], resourceType)
                     \o rest

\* a faulty variant: the allow-list is not consulted
appendMetricsPayload_unfiltered(dest, payload, resourceType, resourceUUID, allowlist, order) ==
    Append(dest, [provider |-> "upcloud", type |-> resourceType,
                 uuid |-> resourceUUID,
                 metrics |-> payloadMetrics(payload, resourceType, {},
                                            order, 1)])

\* a faulty variant: a target without an emitted metric gets no record
appendMetricsPayload_skipEmpty(dest, payload, resourceType, resourceUUID, allowlist, order) ==
    LET metrics == payloadMetrics(payload, resourceType,
                                  toAllowlist(allowlist), order, 1)
    IN IF metrics = <<>> THEN dest
       ELSE Append(dest, [provider |-> "upcloud", type |-> resourceType,
                          uuid |-> resourceUUID, metrics |-> metrics])

appendMetricsPayload(dest, payload, resourceType, resourceUUID, allowlist, order) ==
    Append(dest, [provider |-> "upcloud", type |-> resourceType,
                 uuid |-> resourceUUID,
                 metrics |-> payloadMetrics(payload, resourceType,
                                            toAllowlist(allowlist), order, 1)])

\* ---- the payloads of the sample

MetricsItem(cols, rows) == [Cols |-> cols, Rows |-> rows, Title |-> <<"t", "i", "t", "l", "e">>]

timeLabel == <<"t", "i", "m", "e">>
primaryLabel == <<"p", "r", "i", "m", "a", "r", "y">>
replicaLabel == <<"r", "e", "p", "l", "i", "c", "a">>

ColumnSets ==
    {<<>>, <<timeLabel>>, <<timeLabel, primaryLabel>>,
     <<timeLabel, primaryLabel, replicaLabel>>}

RowPool ==
    {<<>>,
     <<Instant(1)>>,
     <<Instant(1), Float(22, 10), Float(25, 10)>>,
     <<Instant(2), Float(5, 1), Text(<<"x">>)>>,
     <<Instant(2), Number(<<"7">>), Null>>,
     <<Instant(2), Null, Float(8, 1)>>,
     <<Instant(3), Text(<<"2", ".", "5">>)>>,
     <<Text(<<"x">>), Float(3, 1)>>,
     <<Instant(1), Float(4, 1), Float(6, 1), Float(9, 1)>>}

PayloadKeys == {<<"c", "p", "u", "_", "u", "s", "a", "g", "e">>, <<"l", "o", "a", "d", "_", "a", "v", "e", "r", "a", "g", "e">>, <<"x", "_", "u", "s", "a", "g", "e", " ">>, <<"s", "e", "s", "s", "i", "o", "n", "s">>}

tabularItem == MetricsItem(<<timeLabel, primaryLabel, replicaLabel>>,
                           <<<<Instant(1), Float(22, 10), Float(25, 10)>>>>)

Allowlists ==
    {<<>>, <<<<"c", "p", "u", "_", "u", "s", "a", "g", "e">>>>, <<<<" ", "c", "p", "u", "_", "u", "s", "a", "g", "e", " ">>, <<>>>>, <<<<" ">>>>,
     <<<<"l", "o", "a", "d", "_", "a", "v", "e", "r", "a", "g", "e">>, <<"s", "e", "s", "s", "i", "o", "n", "s">>>>, <<<<"x", "_", "u", "s", "a", "g", "e", " ">>>>}

PayloadIdle ==
    /\ pmPc = "idle"
    /\ pmIn = [type |-> "none", uuid |-> <<>>, allowlist |-> <<>>,
               payload |-> <<>>, err |-> FALSE]
    /\ pmOut = <<>>

\* the fetch of one target: it failed, or it returned a payload of a single
\* metric with any columns and rows of the pools, or of several metrics of
\* the same tabular item
PayloadInit ==
    /\ pmPc = "fetched"
    /\ \E t \in {resourceTypeManagedDatabase, resourceTypeManagedLoadBalancer},
          allowlist \in Allowlists :
          \/ \E k \in PayloadKeys, cols \in ColumnSets,
                rows \in SeqsUpTo(RowPool, MaxRows) :
                pmIn = [type |-> t, uuid |-> sA, allowlist |-> allowlist,
                        payload |-> (k :> MetricsItem(cols, rows)),
                        err |-> FALSE]
          \/ \E K \in SUBSET PayloadKeys :
                /\ Cardinality(K) # 1
                /\ pmIn = [type |-> t, uuid |-> sA, allowlist |-> allowlist,
                           payload |-> [k \in K |-> tabularItem],
                           err |-> FALSE]
          \/ pmIn = [type |-> t, uuid |-> sA, allowlist |-> allowlist,
                     payload |-> <<>>, err |-> TRUE]
    /\ pmOut = <<>>

\* the body of the loop over the targets in scrapeMetrics: a failed fetch
\* is passed over, a fetched payload is handed to appendMetricsPayload
AppendPayload ==
    /\ pmPc = "fetched"
    /\ IF pmIn.err
       THEN pmOut' = pmOut
       ELSE \E order \in Orders(DOMAIN pmIn.payload) :
              pmOut' = appendMetricsPayload(pmOut, pmIn.payload, pmIn.type,
                                            pmIn.uuid, pmIn.allowlist, order)
    /\ pmPc' = "appended"
    /\ UNCHANGED pmIn

-----------------------------------------------------------------------------
(* Load balancer snapshots (client.go: getMetrics and the conversion).     *)

\* frontends and backends of a sample snapshot, members of a backend
MaxEntities == 2

\* decoded JSON arrays and objects; an object is a function of its keys
Array(items) == [kind |-> "array", items |-> items]
Object(fields) == [kind |-> "object", fields |-> fields]

\* obj[key] of a Go map, a type assertion to []any and one to string
fieldOf(obj, key) ==
    IF key \in DOMAIN obj.fields THEN obj.fields[key] ELSE Null
asArray(v) == IF v.kind = "array" THEN v.items ELSE <<>>
asString(v) == IF v.kind = "string" THEN v.text ELSE <<>>

\* parseUpdatedAt: the instant of an RFC 3339 string, the current time
\* otherwise
parseUpdatedAt(raw) ==
    IF raw.kind = "time" THEN [known |-> TRUE, at |-> raw.t] ELSE Now

\* ts.After(other); the instants of a payload lie before the current time
After(ts, other) ==
    IF ~ts.known THEN TRUE
    ELSE IF ~other.known THEN FALSE
    ELSE ts.at > other.at

\* timestamp.Format(time.RFC3339)
InstantNow == [kind |-> "timeNow"]
FormatTime(ts) == IF ts.known THEN Instant(ts.at) ELSE InstantNow

\* strings.ReplaceAll(s, "_", " ")
UnderscoresToSpaces(s) == [i \in 1..Len(s) |-> IF s[i] = "_" THEN " " ELSE s[i]]

\* a faulty variant: the bucket takes the timestamp of the entity added last
addMetric_lastStamp(buckets, metricKey, series, value, ts) ==
    LET bucket == IF metricKey \in DOMAIN buckets THEN buckets[metricKey]
                  ELSE [timestamp |-> ts, values |-> <<>>]
    IN (metricKey :> [timestamp |-> ts,
                      values |-> (series :> value) @@ bucket.values])
       @@ buckets

\* addMetric: buckets maps a metric key to [timestamp, values by series]
addMetric(buckets, metricKey, series, value, ts) ==
    LET bucket == IF metricKey \in DOMAIN buckets THEN buckets[metricKey]
                  ELSE [timestamp |-> ts, values |-> <<>>]
        stamped == IF After(ts, bucket.timestamp) THEN ts
                   ELSE bucket.timestamp
    IN (metricKey :> [timestamp |-> stamped,
                      values |-> (series :> value) @@ bucket.values])
       @@ buckets

\* processObject: the range over the keys of obj; the buckets it leaves do
\* not depend on the order of the range
RECURSIVE processKeys(_, _, _, _, _)
processKeys(buckets, metricPrefix, series, obj, keys) ==
    IF keys = {} THEN buckets
    ELSE LET key == CHOOSE k \in keys : TRUE
             value == toFloat64(obj.fields[key])
             ts == parseUpdatedAt(fieldOf(obj, <<"u", "p", "d", "a", "t", "e", "d", "_", "a", "t">>))
             next == IF ~value.ok THEN buckets
                     ELSE addMetric(buckets, metricPrefix \o <<".">> \o key,
                                    series, [n |-> value.n, d |-> value.d],
                                    ts)
         IN processKeys(next, metricPrefix, series, obj, keys \ {key})

processObject(buckets, metricPrefix, series, obj) ==
    processKeys(buckets, metricPrefix, series, obj, DOMAIN obj.fields)

\* the name of an entity, or fmt.Sprintf("<kind>-%d", index)
entityName(obj, kind, index) ==
    LET name == asString(fieldOf(obj, <<"n", "a", "m", "e">>)) IN
    IF TrimSpace(name) = <<>> THEN kind \o <<"-">> \o <<Digits[index + 1]>>
    ELSE name

RECURSIVE processFrontends(_, _, _)
processFrontends(buckets, frontends, index) ==
    IF index >= Len(frontends) THEN buckets
    ELSE LET item == frontends[index + 1] IN
         IF item.kind # "object"
         THEN processFrontends(buckets, frontends, index + 1)
         ELSE processFrontends(
                  processObject(buckets, <<"f", "r", "o", "n", "t", "e", "n", "d">>,
                      <<"f", "r", "o", "n", "t", "e", "n", "d", ":">> \o entityName(item, <<"f", "r", "o", "n", "t", "e", "n", "d">>, index),
                      item),
                  frontends, index + 1)

RECURSIVE processMembers(_, _, _, _)
processMembers(buckets, members, series, mIdx) ==
    IF mIdx >= Len(members) THEN buckets
    ELSE LET member == members[mIdx + 1] IN
         IF member.kind # "object"
         THEN processMembers(buckets, members, series, mIdx + 1)
         ELSE processMembers(
                  processObject(buckets, <<"b", "a", "c", "k", "e", "n", "d", ".", "m", "e", "m", "b", "e", "r">>,
                      series \o <<"/", "m", "e", "m", "b", "e", "r", ":">>
                          \o entityName(member, <<"m", "e", "m", "b", "e", "r">>, mIdx),
                      member),
                  members, series, mIdx + 1)

RECURSIVE processBackends(_, _, _)
processBackends(buckets, backends, index) ==
    IF index >= Len(backends) THEN buckets
    ELSE LET item == backends[index + 1] IN
         IF item.kind # "object"
         THEN processBackends(buckets, backends, index + 1)
         ELSE LET series == <<"b", "a", "c", "k", "e", "n", "d", ":">> \o entityName(item, <<"b", "a", "c", "k", "e", "n", "d">>, index)
                  own == processObject(buckets, <<"b", "a", "c", "k", "e", "n", "d">>, series, item)
              IN processBackends(
                     processMembers(own, asArray(fieldOf(item, <<"m", "e", "m", "b", "e", "r", "s">>)),
                                    series, 0),
                     backends, index + 1)

\* one bucket in the tabular shape
materialize(metricKey, bucket) ==
    LET seriesNames == SetToSortedSeq(DOMAIN bucket.values) IN
    [Cols |-> <<timeLabel>> \o seriesNames,
     Rows |-> <<(<<FormatTime(bucket.timestamp)>>
                 \o [i \in 1..Len(seriesNames) |->
                        Float(bucket.values[seriesNames[i]].n,
                              bucket.values[seriesNames[i]].d)])>>,
     Title |-> UnderscoresToSpaces(metricKey)]

ConversionErr(why) == [err |-> TRUE, why |-> why, response |-> <<>>]

snapshotBuckets(root) ==
    processBackends(
        processFrontends(<<>>, asArray(fieldOf(root, <<"f", "r", "o", "n", "t", "e", "n", "d", "s">>)), 0),
        asArray(fieldOf(root, <<"b", "a", "c", "k", "e", "n", "d", "s">>)), 0)

\* a faulty variant: a snapshot without numeric fields converts to an empty
\* response
convertLoadBalancerSnapshotToMetricsResponse_emptyOk(payload) ==
    IF payload.kind # "object" THEN ConversionErr("not an object")
    ELSE LET buckets == snapshotBuckets(payload) IN
         [err |-> FALSE, why |-> "none",
          response |-> [metricKey \in DOMAIN buckets |->
                           materialize(metricKey, buckets[metricKey])]]

\* a faulty variant: every series of the snapshot gets a column in every
\* record
convertLoadBalancerSnapshotToMetricsResponse_allSeries(payload) ==
    IF payload.kind # "object" THEN ConversionErr("not an object")
    ELSE LET buckets == snapshotBuckets(payload)
             all == UNION {DOMAIN buckets[k].values : k \in DOMAIN buckets}
             zero == [n |-> 0, d |-> 1]
         IN IF DOMAIN buckets = {} THEN ConversionErr("no numeric metrics")
            ELSE [err |-> FALSE, why |-> "none",
                  response |-> [metricKey \in DOMAIN buckets |->
                      materialize(metricKey,
                          [buckets[metricKey] EXCEPT !.values =
                              @ @@ [s \in all |-> zero]])]]

convertLoadBalancerSnapshotToMetricsResponse(payload) ==
    IF payload.kind # "object" THEN ConversionErr("not an object")
    ELSE LET buckets == snapshotBuckets(payload) IN
         IF DOMAIN buckets = {} THEN ConversionErr("no numeric metrics")
         ELSE [err |-> FALSE, why |-> "none",
               response |-> [metricKey \in DOMAIN buckets |->
                                materialize(metricKey, buckets[metricKey])]]

\* decodeMetricsResponse on the sample payloads: an object whose members
\* are null, or objects without data and hints, unmarshals into a map of
\* empty items; an array or a scalar where an item is expected is an error
decodeMetricsResponse(payload) ==
    IF /\ payload.kind = "object"
       /\ \A k \in DOMAIN payload.fields :
             payload.fields[k].kind \in {"nil", "object"}
    THEN [err |-> FALSE,
          response |-> [k \in DOMAIN payload.fields |->
                           [Cols |-> <<>>, Rows |-> <<>>, Title |-> <<>>]]]
    ELSE [err |-> TRUE, response |-> <<>>]

loadBalancerSegment == <<"/", "l", "o", "a", "d", "-", "b", "a", "l", "a", "n", "c", "e", "r", "/">>

getMetrics(endpointPath, payload) ==
    LET parsed == decodeMetricsResponse(payload) IN
    IF ~parsed.err
    THEN [err |-> FALSE, response |-> parsed.response, via |-> "tabular",
          conversion |-> "none"]
    ELSE IF Contains(endpointPath, loadBalancerSegment)
    THEN LET converted ==
                 convertLoadBalancerSnapshotToMetricsResponse(payload)
         IN IF ~converted.err
            THEN [err |-> FALSE, response |-> converted.response,
                  via |-> "snapshot", conversion |-> "none"]
            ELSE [err |-> TRUE, response |-> <<>>, via |-> "snapshot",
                  conversion |-> converted.why]
    ELSE [err |-> TRUE, response |-> <<>>, via |-> "tabular",
          conversion |-> "none"]

\* ---- the snapshots of the sample

memberWithSessions ==
    Object((<<"n", "a", "m", "e">> :> Text(<<"m", "1">>)) @@ (<<"c", "u", "r", "r", "e", "n", "t", "_", "s", "e", "s", "s", "i", "o", "n", "s">> :> Number(<<"2">>))
           @@ (<<"u", "p", "d", "a", "t", "e", "d", "_", "a", "t">> :> Instant(3)))
memberWithoutNumbers == Object(<<"s", "t", "a", "t", "u", "s">> :> Text(<<"u", "p">>))

FrontendPool ==
    {Object((<<"n", "a", "m", "e">> :> Text(<<"w", "e", "b">>))
            @@ (<<"t", "o", "t", "a", "l", "_", "h", "t", "t", "p", "_", "r", "e", "q", "u", "e", "s", "t", "s">> :> Number(<<"1", "2">>))
            @@ (<<"u", "p", "d", "a", "t", "e", "d", "_", "a", "t">> :> Instant(1))),
     Object((<<"n", "a", "m", "e">> :> Text(<<"w", "e", "b">>))
            @@ (<<"t", "o", "t", "a", "l", "_", "h", "t", "t", "p", "_", "r", "e", "q", "u", "e", "s", "t", "s">> :> Number(<<"7">>))
            @@ (<<"r", "e", "q", "u", "e", "s", "t", "_", "r", "a", "t", "e">> :> Number(<<"2">>))
            @@ (<<"u", "p", "d", "a", "t", "e", "d", "_", "a", "t">> :> Instant(2))),
     Object((<<"n", "a", "m", "e">> :> Text(<<" ">>)) @@ (<<"s", "t", "a", "t", "u", "s">> :> Text(<<"u", "p">>))),
     Object((<<"n", "a", "m", "e">> :> Text(<<"1">>)) @@ (<<"u", "p", "d", "a", "t", "e", "d", "_", "a", "t">> :> Text(<<"x">>))),
     Null}

BackendPool ==
    {Object((<<"n", "a", "m", "e">> :> Text(<<"a", "p", "i">>))
            @@ (<<"c", "u", "r", "r", "e", "n", "t", "_", "s", "e", "s", "s", "i", "o", "n", "s">> :> Number(<<"3">>))
            @@ (<<"u", "p", "d", "a", "t", "e", "d", "_", "a", "t">> :> Instant(1))
            @@ (<<"m", "e", "m", "b", "e", "r", "s">> :> Array(<<memberWithSessions>>))),
     Object((<<"n", "a", "m", "e">> :> Text(<<"a", "p", "i">>))
            @@ (<<"m", "e", "m", "b", "e", "r", "s">> :> Array(<<memberWithoutNumbers, Null>>))),
     Object(<<"s", "t", "a", "t", "u", "s">> :> Text(<<"u", "p">>)),
     Object((<<"n", "a", "m", "e">> :> Text(<<"d", "b">>))
            @@ (<<"m", "e", "m", "b", "e", "r", ".", "c", "u", "r", "r", "e", "n", "t", "_", "s", "e", "s", "s", "i", "o", "n", "s">> :> Number(<<"4">>))
            @@ (<<"m", "e", "m", "b", "e", "r", "s">> :> Array(<<memberWithSessions>>))),
     Text(<<"x">>)}

\* url.PathEscape on the characters of the sample identifiers: a slash, a
\* blank and a percent sign are escaped, letters, digits, "-", "_" and "."
\* are kept
escapeChar(c) ==
    CASE c = "/" -> <<"%", "2", "F">>
      [] c = " " -> <<"%", "2", "0">>
      [] c = "%" -> <<"%", "2", "5">>
      [] OTHER -> <<c>>

RECURSIVE PathEscape(_)
PathEscape(s) ==
    IF s = <<>> THEN <<>> ELSE escapeChar(Head(s)) \o PathEscape(Tail(s))

\* strings.ReplaceAll for a non-empty old
RECURSIVE ReplaceAll(_, _, _)
ReplaceAll(s, old, new) ==
    IF Len(s) < Len(old) THEN s
    ELSE IF SubSeq(s, 1, Len(old)) = old
    THEN new \o ReplaceAll(SubSeq(s, Len(old) + 1, Len(s)), old, new)
    ELSE <<Head(s)>> \o ReplaceAll(Tail(s), old, new)

\* path.Join("/1.3/database", escapedUUID, "metrics"): the non-empty elements
\* joined by slashes (the sample identifiers are no dot segments, so that
\* the cleaning of the joined path changes nothing)
databaseMetricsPath(uuid) ==
    <<"/", "1", ".", "3", "/", "d", "a", "t", "a", "b", "a", "s", "e">>
      \o (IF PathEscape(uuid) = <<>> THEN <<>> ELSE <<"/">> \o PathEscape(uuid))
      \o <<"/", "m", "e", "t", "r", "i", "c", "s">>

GetManagedDatabaseMetrics(uuid, payload) ==
    getMetrics(databaseMetricsPath(uuid), payload)

GetManagedLoadBalancerMetrics(template, uuid, payload) ==
    getMetrics(ReplaceAll(template, uuidPlaceholder, PathEscape(uuid)), payload)

defaultLoadBalancerMetricsTemplate == <<"/", "1", ".", "3", "/", "l", "o", "a", "d", "-", "b", "a", "l", "a", "n", "c", "e", "r", "/", "{", "u", "u", "i", "d", "}", "/", "m", "e", "t", "r", "i", "c", "s">>

\* the requests of the sample: a database and a load balancer under the
\* default template, a load balancer under a template of the operator's own,
\* and a database whose identifier is the name of the load balancer segment
MetricsRequests ==
    {[resourceType |-> resourceTypeManagedDatabase, uuid |-> <<"a">>,
      template |-> defaultLoadBalancerMetricsTemplate],
     [resourceType |-> resourceTypeManagedDatabase, uuid |-> <<"l", "o", "a", "d", "-", "b", "a", "l", "a", "n", "c", "e", "r">>,
      template |-> defaultLoadBalancerMetricsTemplate],
     [resourceType |-> resourceTypeManagedLoadBalancer, uuid |-> <<"a", "/", "b">>,
      template |-> defaultLoadBalancerMetricsTemplate],
     [resourceType |-> resourceTypeManagedLoadBalancer, uuid |-> <<"a">>,
      template |-> <<"/", "l", "b", "/", "{", "u", "u", "i", "d", "}", "/", "m", "e", "t", "r", "i", "c", "s">>]}

SnapshotIdle ==
    /\ snPc = "idle"
    /\ snIn = [resourceType |-> "none", uuid |-> <<>>, template |-> <<>>,
               payload |-> Null]
    /\ snOut = [err |-> FALSE, response |-> <<>>, via |-> "none",
                conversion |-> "none"]

\* the body of one metrics response: an array, an object of nulls, or a
\* snapshot of frontends and backends
SnapshotInit ==
    /\ snPc = "request"
    /\ \E request \in MetricsRequests :
          \/ \E payload \in {Array(<<>>), Object(<<>>),
                             Object(<<"f", "r", "o", "n", "t", "e", "n", "d", "s">> :> Null)} :
                snIn = [resourceType |-> request.resourceType,
                        uuid |-> request.uuid, template |-> request.template,
                        payload |-> payload]
          \/ \E frontends \in SeqsUpTo(FrontendPool, MaxEntities),
                backends \in SeqsUpTo(BackendPool, MaxEntities) :
                snIn = [resourceType |-> request.resourceType,
                        uuid |-> request.uuid, template |-> request.template,
                        payload |-> Object(
                            (<<"f", "r", "o", "n", "t", "e", "n", "d", "s">> :> Array(frontends))
                            @@ (<<"b", "a", "c", "k", "e", "n", "d", "s">> :> Array(backends)))]
    /\ snOut = [err |-> FALSE, response |-> <<>>, via |-> "none",
                conversion |-> "none"]

\* one fetch of the client: GetManagedDatabaseMetrics or
\* GetManagedLoadBalancerMetrics on the decoded body of the response
GetMetrics ==
    /\ snPc = "request"
    /\ snOut' = IF snIn.resourceType = resourceTypeManagedDatabase
                THEN GetManagedDatabaseMetrics(snIn.uuid, snIn.payload)
                ELSE GetManagedLoadBalancerMetrics(snIn.template, snIn.uuid,
                                                   snIn.payload)
    /\ snPc' = "done"
    /\ UNCHANGED snIn

MetricIdle == DescriptorIdle /\ PayloadIdle /\ SnapshotIdle

-----------------------------------------------------------------------------
(* The receiver's specification.                                           *)

Init == ReceiverInit /\ ResolveIdle /\ ListIdle /\ ConfigIdle /\ MetricIdle

\* the steps of the goroutine that runs the polling loop
RunStep ==
    \/ RunEnter
    \/ RunDelayWake
    \/ RunNewTicker
    \/ RunSelectDone
    \/ RunSelectTick
    \/ RunSelectPark
    \/ RunTickWake
    \/ ResolveDatabases
    \/ FetchDatabase
    \/ DatabasesDone
    \/ ResolveLoadBalancers
    \/ FetchLoadBalancer
    \/ LoadBalancersDone
    \/ Decide
    \/ ConsumeReturns

\* the steps of a call of Shutdown and of the goroutine it spawns
ShutdownStep ==
    \/ ShutdownCall
    \/ ShutdownWaiter
    \/ ShutdownSelectCtx
    \/ ShutdownSelectDone
    \/ ShutdownSelectPark
    \/ ShutdownWake

\* the host, the clock and the caller's context
EnvStep ==
    \/ Start
    \/ TimerFires
    \/ Tick
    \/ CallerDeadline

pureVars == <<resolveVars, listVars, configVars, metricVars>>

Next ==
    \/ RunEnter /\ UNCHANGED pureVars
    \/ RunDelayWake /\ UNCHANGED pureVars
    \/ RunNewTicker /\ UNCHANGED pureVars
    \/ RunSelectDone /\ UNCHANGED pureVars
    \/ RunSelectTick /\ UNCHANGED pureVars
    \/ RunSelectPark /\ UNCHANGED pureVars
    \/ RunTickWake /\ UNCHANGED pureVars
    \/ ResolveDatabases /\ UNCHANGED pureVars
    \/ FetchDatabase /\ UNCHANGED pureVars
    \/ DatabasesDone /\ UNCHANGED pureVars
    \/ ResolveLoadBalancers /\ UNCHANGED pureVars
    \/ FetchLoadBalancer /\ UNCHANGED pureVars
    \/ LoadBalancersDone /\ UNCHANGED pureVars
    \/ Decide /\ UNCHANGED pureVars
    \/ ConsumeReturns /\ UNCHANGED pureVars
    \/ ShutdownCall /\ UNCHANGED pureVars
    \/ ShutdownWaiter /\ UNCHANGED pureVars
    \/ ShutdownSelectCtx /\ UNCHANGED pureVars
    \/ ShutdownSelectDone /\ UNCHANGED pureVars
    \/ ShutdownSelectPark /\ UNCHANGED pureVars
    \/ ShutdownWake /\ UNCHANGED pureVars
    \/ Start /\ UNCHANGED pureVars
    \/ TimerFires /\ UNCHANGED pureVars
    \/ Tick /\ UNCHANGED pureVars
    \/ CallerDeadline /\ UNCHANGED pureVars

Spec == Init /\ [][Next]_vars

\* The Go scheduler runs every runnable goroutine, and every network and
\* consumer call returns; a select with several ready cases takes each of
\* them with equal probability, so the ctx.Done case is not passed over for
\* ever.
LiveSpec ==
    /\ Spec
    /\ WF_vars(RunStep /\ UNCHANGED pureVars)
    /\ SF_vars(RunSelectDone /\ UNCHANGED pureVars)

-----------------------------------------------------------------------------
(* Specifications of the pure parts.                                       *)

InitResolve ==
    ResolveInit /\ ListIdle /\ ReceiverIdle /\ ConfigIdle /\ MetricIdle

NextResolve ==
    \/ ResolveDatabase /\ UNCHANGED <<listVars, loopVars, shutdownVars, cycleVars, configVars,
                   metricVars>>
    \/ ResolveLoadBalancer /\ UNCHANGED <<listVars, loopVars, shutdownVars, cycleVars, configVars,
                   metricVars>>

SpecResolve == InitResolve /\ [][NextResolve]_vars

InitList ==
    ListInit /\ ResolveIdle /\ ReceiverIdle /\ ConfigIdle /\ MetricIdle

NextList ==
    \/ ListPage /\ UNCHANGED <<resolveVars, loopVars, shutdownVars, cycleVars, configVars,
                   metricVars>>
    \/ ListPageError /\ UNCHANGED <<resolveVars, loopVars, shutdownVars, cycleVars, configVars,
                   metricVars>>
    \/ ListReturn /\ UNCHANGED <<resolveVars, loopVars, shutdownVars, cycleVars, configVars,
                   metricVars>>

SpecList == InitList /\ [][NextList]_vars

\* both discovery calls of the client
InitDiscover ==
    (ListInit \/ DiscoverInit)
    /\ ResolveIdle /\ ReceiverIdle /\ ConfigIdle /\ MetricIdle

NextDiscover ==
    \/ NextList
    \/ ListLoadBalancers /\ UNCHANGED <<resolveVars, loopVars, shutdownVars, cycleVars, configVars,
                   metricVars>>
    \/ ListLoadBalancersError /\ UNCHANGED <<resolveVars, loopVars, shutdownVars, cycleVars, configVars,
                   metricVars>>

SpecDiscover == InitDiscover /\ [][NextDiscover]_vars

receiverVars == <<resolveVars, listVars, loopVars, shutdownVars, cycleVars,
                  metricVars>>

InitConfig ==
    ConfigInit /\ ResolveIdle /\ ListIdle /\ ReceiverIdle /\ MetricIdle

NextConfig ==
    \/ CreateReceiver /\ UNCHANGED receiverVars
    \/ SendRequest /\ UNCHANGED receiverVars

SpecConfig == InitConfig /\ [][NextConfig]_vars

InitClient ==
    ClientInit /\ ResolveIdle /\ ListIdle /\ ReceiverIdle /\ MetricIdle

NextClient ==
    \/ NewClient /\ UNCHANGED receiverVars
    \/ SendRequest /\ UNCHANGED receiverVars

SpecClient == InitClient /\ [][NextClient]_vars

InitDescriptor ==
    DescriptorInit /\ PayloadIdle /\ SnapshotIdle /\ ResolveIdle /\ ListIdle
        /\ ReceiverIdle /\ ConfigIdle

NextDescriptor ==
    \/ DescribeMetric
         /\ UNCHANGED <<payloadVars, snapshotVars, configVars, resolveVars,
                        listVars, loopVars, shutdownVars, cycleVars>>

SpecDescriptor == InitDescriptor /\ [][NextDescriptor]_vars

InitPayload ==
    PayloadInit /\ DescriptorIdle /\ SnapshotIdle /\ ResolveIdle /\ ListIdle
        /\ ReceiverIdle /\ ConfigIdle

NextPayload ==
    \/ AppendPayload
         /\ UNCHANGED <<descriptorVars, snapshotVars, configVars, resolveVars,
                        listVars, loopVars, shutdownVars, cycleVars>>

SpecPayload == InitPayload /\ [][NextPayload]_vars

InitSnapshot ==
    SnapshotInit /\ DescriptorIdle /\ PayloadIdle /\ ResolveIdle /\ ListIdle
        /\ ReceiverIdle /\ ConfigIdle

NextSnapshot ==
    \/ GetMetrics
         /\ UNCHANGED <<descriptorVars, payloadVars, configVars, resolveVars,
                        listVars, loopVars, shutdownVars, cycleVars>>

SpecSnapshot == InitSnapshot /\ [][NextSnapshot]_vars

-----------------------------------------------------------------------------
(* Claims about the resolver and the pagination.                           *)

\* the identifiers resolution starts from: explicit, plus discovered when
\* auto-discovery is enabled and the discovery call succeeded
resolvedUnion(in) ==
    Range(in.c.UUIDs)
    \cup (IF in.c.AutoDiscover /\ ~in.disc.err THEN Range(in.disc.ids) ELSE {})

\* C2: for every explicit list, discovered list and exclusion list the
\* resolved target list holds no identifier twice, holds no identifier that
\* appears in the exclusion list, is sorted ascending, and holds every
\* identifier of the union that is not excluded (an identifier counts as
\* excluded when it or its trimmed form is an entry, trimmed or not, of the
\* exclusion list).
C2_ResolvedTargets ==
    rsPc = "done" =>
        LET t == rsOut.targets
            ex == Range(rsIn.c.ExcludeUUIDs) \cup excludedSet(rsIn.c.ExcludeUUIDs)
        IN /\ NoDuplicates(t)
           /\ Range(t) \cap Range(rsIn.c.ExcludeUUIDs) = {}
           /\ IsSorted(t)
           /\ \A u \in resolvedUnion(rsIn) :
                (u \notin ex /\ TrimSpace(u) \notin ex) => u \in Range(t)

\* the distinct usable identifiers among the objects the backend holds
distinctIds(b) == Range(extractUUIDsFromArray(b.items))

\* C4 as stated: at most ceil(total_items / page_size) + 1 page requests,
\* whatever pages the backend answers with.
C4_RequestsWithinCeilPlusOne ==
    lsPc # "idle" =>
        requests <= CeilDiv(Len(backend.items), limit) + 1

\* C4 as amended: the bound ceil(total_items / page_size) + 1 holds against a
\* backend that serves the slices [offset, offset + page_size) of its list
\* (short final page, repeated or unusable objects included); against a
\* backend that may repeat identifiers of earlier pages on any page the
\* requests are bounded by distinct_identifiers - page_size + 2 (and by 1 when
\* it holds fewer identifiers than a page).
C4_PaginationBound ==
    lsPc # "idle" =>
        /\ backend.mode = "slice" =>
              requests <= CeilDiv(Len(backend.items), limit) + 1
        /\ backend.mode = "any" =>
              requests <= Max(1, Cardinality(distinctIds(backend)) - limit + 2)

\* a backend repeating identifiers drives the loop to its bound, beyond
\* ceil(total_items / page_size) + 1
C4_Witness ==
    /\ lsPc = "returned" /\ ~lsResult.err
    /\ backend.mode = "any"
    /\ requests = Cardinality(distinctIds(backend)) - limit + 2
    /\ requests > CeilDiv(Len(backend.items), limit) + 1
    /\ Len(lsResult.ids) = Cardinality(distinctIds(backend))

-----------------------------------------------------------------------------
(* Claims about the scrape cycle.                                          *)

\* a cycle has run to its end and no later one has started
CycleEnded == cycleNo > 0 /\ cyc = "idle"

\* the targets of the cycle whose fetch failed
failedTargets == {r \in Range(fetched) : r \notin Range(out)}

\* the errors the cycle reported as its scrape error
reportedErrors ==
    UNION {Range(logged[i].errs) : i \in {j \in 1..Len(logged) :
                                            logged[j].msg = "scrape"}}

\* C1: in a cycle where a target's fetch fails and another target's fetch
\* succeeds, the batch with the successful targets' records is forwarded to
\* the consumer and one joined error naming every failed target is reported.
C1_PartialFailureForwarded ==
    (CycleEnded /\ failedTargets # {} /\ out # <<>>) =>
        /\ consumerCalls = <<out>>
        /\ Len(logged) = 1
        /\ \A r \in failedTargets : FetchError(r.type, r.uuid) \in reportedErrors

blockOf(t) ==
    IF t = resourceTypeManagedDatabase
    THEN cfg.ManagedDatabases ELSE cfg.ManagedLoadBalancers

\* the identifiers of the resource type t fetched in the cycle, in order
RECURSIVE uuidsOf(_, _)
uuidsOf(rs, t) ==
    IF rs = <<>> THEN <<>>
    ELSE (IF Head(rs).type = t THEN <<Head(rs).uuid>> ELSE <<>>)
         \o uuidsOf(Tail(rs), t)

\* C3: when the discovery call of a resource type fails, the cycle goes on:
\* every explicit identifier that is not excluded is fetched, once, in
\* ascending order, and the discovery error is part of the reported error.
C3_DiscoveryFailureKeepsExplicit ==
    CycleEnded =>
        \A t \in discFailed :
            LET F == uuidsOf(fetched, t) IN
            /\ NoDuplicates(F)
            /\ IsSorted(F)
            /\ Range(F) = {u \in Range(blockOf(t).UUIDs) :
                             u \notin excludedSet(blockOf(t).ExcludeUUIDs)}
            /\ DiscoverError(t) \in reportedErrors

C3_Witness ==
    /\ CycleEnded
    /\ resourceTypeManagedDatabase \in discFailed
    /\ fetched = <<Resource(resourceTypeManagedDatabase, sB)>>
    /\ DiscoverError(resourceTypeManagedDatabase) \in reportedErrors

\* C10 as stated: a cycle whose batch holds no resource record calls the
\* consumer not at all and reports no error.
C10_EmptyBatchSilent ==
    (CycleEnded /\ out = <<>>) => (consumerCalls = <<>> /\ logged = <<>>)

\* C10 as amended: a cycle whose batch holds no resource record calls the
\* consumer not at all, and reports no error unless a discovery call or a
\* fetch of the cycle failed (the joined error of those is reported).
C10_EmptyBatchSkipped ==
    (CycleEnded /\ out = <<>>) =>
        /\ consumerCalls = <<>>
        /\ errs = <<>> => logged = <<>>
        /\ errs # <<>> => logged = <<[msg |-> "scrape", errs |-> errs]>>

C10_Witness ==
    /\ CycleEnded /\ out = <<>> /\ errs = <<>>
    /\ cfg.ManagedDatabases.Enabled /\ cfg.ManagedDatabases.AutoDiscover
    /\ fetched = <<>> /\ consumerCalls = <<>> /\ logged = <<>>

-----------------------------------------------------------------------------
(* Claims about the lifecycle and the polling loop.                        *)

\* C5: at most one scrape cycle of a receiver is in progress at any time,
\* and a cycle is started only when the previous one has returned.
C5_OneCycleAtATime ==
    /\ inflight <= 1
    /\ inflight = (IF cyc = "idle" THEN 0 ELSE 1)
    /\ cyc # "idle" => pc = "scrape"

C5_Witness == cycleNo = 2 /\ inflight = 1 /\ cyc = "db_fetch"

\* the lifecycle state of the receiver
life ==
    IF ~started THEN "idle"
    ELSE IF pc = "exited" THEN "stopped"
    ELSE IF ctxDone THEN "stopping"
    ELSE "running"

LifeStep ==
    life' # life =>
        \/ /\ life = "idle" /\ life' = "running"
           /\ ~started /\ started'
        \/ /\ life = "running" /\ life' = "stopping"
           /\ shPc = "idle" /\ shPc' = "select"
        \/ /\ life = "stopping" /\ life' = "stopped"
           /\ ctxDone /\ pc # "exited" /\ pc' = "exited"

\* C6: the lifecycle takes only the transitions idle -> running (Start),
\* running -> stopping (a Shutdown request) and stopping -> stopped (the loop
\* observes the cancellation and exits), and no scrape cycle runs in the
\* idle or the stopped state.
C6_Lifecycle ==
    /\ [](cyc # "idle" => life \in {"running", "stopping"})
    /\ [][LifeStep]_vars

C6_Witness == life = "stopped" /\ cycleNo >= 1 /\ shPc = "returned"

\* C7: Shutdown returns nil only when no polling loop is running any more
\* (for a started receiver: the loop has exited), and returns the caller's
\* context error only when that context is done; it returns in no other way.
C7_ShutdownReturn ==
    /\ shPc = "returned" <=> shResult # "none"
    /\ shResult = "nil" =>
          /\ wg = 0 /\ doneClosed
          /\ pc \in {"none", "exited"}
          /\ started => pc = "exited"
    /\ shResult = "ctxErr" => callerDone

C7_Witness ==
    /\ shResult = "nil" /\ started /\ pc = "exited" /\ cycleNo >= 1
    /\ ~callerDone

\* C8: after a Shutdown request the polling loop eventually exits.
C8_ShutdownStopsLoop == ctxDone ~> (pc = "exited")

C8_Witness == ctxDone /\ pc = "exited" /\ cycleNo >= 2 /\ ticksTaken >= 1

\* C9: no cycle starts before the initial delay has elapsed; a Shutdown
\* request during the initial delay leaves the loop without any cycle; the
\* first cycle takes no tick and there is no ticker before it, and every
\* later cycle takes one tick.
C9_InitialDelayThenTicks ==
    /\ cycleNo > 0 => (cfg.InitialDelay = 0 \/ delayFired)
    /\ cancelledInDelay => (cycleNo = 0 /\ pc \in {"run", "delay_wait", "exited"})
    /\ cycleNo = 0 => (~tickerOn /\ ticksTaken = 0 /\ tickC = 0)
    /\ cycleNo > 0 => ticksTaken = cycleNo - 1

C9_Witness ==
    /\ cfg.InitialDelay > 0 /\ delayFired
    /\ cycleNo = 2 /\ ticksTaken = 1 /\ ~ctxDone

-----------------------------------------------------------------------------
(* Claims about the targets of a cycle.                                    *)

\* the resource types the configuration enables
enabledTypes ==
    {t \in {resourceTypeManagedDatabase, resourceTypeManagedLoadBalancer} :
       blockOf(t).Enabled}

\* the records of resource type t in a sequence of records
recordsOf(rs, t) == {r \in Range(rs) : r.type = t}

\* C11: for a resource type whose resolved target list is empty, the cycle
\* issues no fetch of that type and adds no record of that type to the
\* batch; when every enabled type resolved to an empty list, the cycle ends
\* without a call to the consumer.
C11_EmptyTargetsNoFetch ==
    /\ \A r \in resolved :
         r.targets = <<>> =>
            recordsOf(fetched, r.type) = {} /\ recordsOf(out, r.type) = {}
    /\ (/\ CycleEnded
        /\ \A t \in enabledTypes : [type |-> t, targets |-> <<>>] \in resolved)
       => (consumerCalls = <<>> /\ fetched = <<>> /\ out = <<>>)

C11_Witness ==
    /\ CycleEnded
    /\ enabledTypes = {resourceTypeManagedDatabase,
                       resourceTypeManagedLoadBalancer}
    /\ cfg.ManagedLoadBalancers.UUIDs # <<>>
    /\ resolved = {[type |-> t, targets |-> <<>>] : t \in enabledTypes}
    /\ consumerCalls = <<>>

-----------------------------------------------------------------------------
(* Claims about the loop after a failed cycle.                             *)

\* the polling loop scheduled fairly, with a ticker that keeps ticking
LiveSpecTicks == LiveSpec /\ WF_vars(Tick /\ UNCHANGED pureVars)

\* the last cycle has ended with a logged scrape or consumer error
failedCycle == CycleEnded /\ logged # <<>>

\* a cycle ends with an error: the loop goes on where scrapeAndConsume was
\* called and the lifecycle state does not change
FailedCycleReturns ==
    (cyc # "idle" /\ cyc' = "idle" /\ logged' # <<>>) =>
        /\ pc' \in {"new_ticker", "tick_select"}
        /\ life' = life /\ life \in {"running", "stopping"}
        /\ wg' = 1

\* after a failed cycle the loop leaves only on cancellation, and a tick it
\* takes starts a new cycle from the resolution of the targets
AfterFailedCycle ==
    failedCycle =>
        /\ (pc # "exited" /\ pc' = "exited") => ctxDone
        /\ ticksTaken' # ticksTaken =>
              /\ cycleNo' = cycleNo + 1
              /\ cyc' = "db" /\ resolved' = {} /\ fetched' = <<>>

\* C12: a cycle that ends with a scrape error or a consumer error does not
\* stop the polling loop: the receiver keeps its lifecycle state, the loop
\* ends only on cancellation, and unless Shutdown is requested the next tick
\* starts a new cycle, which resolves and fetches the targets again.
C12_FailedCycleKeepsPolling ==
    /\ [][FailedCycleReturns]_vars
    /\ [][AfterFailedCycle]_vars
    /\ (failedCycle /\ cycleNo < MaxCycles) ~> (ctxDone \/ cyc = "db")

C12_Witness ==
    /\ failedCycle /\ logged[1].msg = "consume"
    /\ life = "running" /\ pc = "tick_select" /\ tickC = 1

-----------------------------------------------------------------------------
(* Claims about construction.                                              *)

\* a setting is present when it is not blank
isSet(x) == TrimSpace(x) # <<>>

bearerPresent(api) == isSet(api.Token) \/ isSet(api.TokenFile)

basicPresent(api) ==
    isSet(api.Username) \/ isSet(api.Password) \/ isSet(api.PasswordFile)

\* the credential settings the claim calls invalid
invalidAuth(api) ==
    \/ bearerPresent(api) /\ basicPresent(api)
    \/ isSet(api.Token) /\ isSet(api.TokenFile)
    \/ isSet(api.Password) /\ isSet(api.PasswordFile)
    \/ ~bearerPresent(api) /\ ~basicPresent(api)
    \/ /\ basicPresent(api)
       /\ ~isSet(api.Username)
          \/ (~isSet(api.Password) /\ ~isSet(api.PasswordFile))

\* the resource type settings the claim calls invalid
invalidTargets(c) ==
    \/ ~c.ManagedDatabases.Enabled /\ ~c.ManagedLoadBalancers.Enabled
    \/ \E b \in {c.ManagedDatabases, c.ManagedLoadBalancers} :
         b.Enabled /\ b.UUIDs = <<>> /\ ~b.AutoDiscover
    \/ \E b \in {c.ManagedDatabases, c.ManagedLoadBalancers} :
         b.Enabled /\ b.AutoDiscover /\ ~isSet(b.DiscoveryPath)
    \/ /\ c.ManagedDatabases.Enabled /\ c.ManagedDatabases.AutoDiscover
       /\ c.ManagedDatabases.DiscoveryLimit <= 0

templateLacksPlaceholder(c) ==
    ~Contains(c.ManagedLoadBalancers.MetricsPathTemplate, uuidPlaceholder)

\* an enabled type names no identifier and discovers its targets
discoversOnly(c) ==
    \E b \in {c.ManagedDatabases, c.ManagedLoadBalancers} :
        b.Enabled /\ b.UUIDs = <<>> /\ b.AutoDiscover

\* the credential files the settings name can be read and are not blank
credentialFilesReadable(api) ==
    \A f \in {api.TokenFile, api.PasswordFile} :
        isSet(f) => (~ReadFile(TrimSpace(f)).err
                     /\ isSet(ReadFile(TrimSpace(f)).raw))

refused == cfOut.err /\ ~cfOut.receiver

-----------------------------------------------------------------------------
(* Claims about the credentials of the API client.                         *)

\* the bearer token NewHTTPClient resolves from the token settings
resolvedToken(api) == resolveSecret(api.Token, api.TokenFile)

\* C14: NewHTTPClient returns an error when neither a bearer token (inline
\* or file) nor basic-auth credentials are configured; and when a bearer
\* token is resolved, every request of the client carries the bearer
\* Authorization header with that token rather than basic auth.
C14_NoCredentialsNoClient ==
    cfPc \in {"created", "requested"} =>
        /\ (~bearerPresent(cfIn.API) /\ ~basicPresent(cfIn.API)) => cfOut.err
        /\ (/\ cfPc = "requested"
            /\ ~resolvedToken(cfIn.API).err
            /\ resolvedToken(cfIn.API).value # <<>>)
           => (/\ cfHeader.scheme = "Bearer"
               /\ cfHeader.token = resolvedToken(cfIn.API).value)

-----------------------------------------------------------------------------
(* Claims about the emission of tabular payloads.                          *)

\* the metric records appendMetricsPayload added for the payload
emittedMetrics ==
    IF pmOut = <<>> THEN {}
    ELSE Range(pmOut[Len(pmOut)].metrics)

pointsOf(m) == Range(m.points)

\* the payload item a point was emitted for, by its upcloud.metric.name
itemOf(p) == pmIn.payload[p.metricName]

lastRow(item) == item.Rows[Len(item.Rows)]

\* every row of the item starts with a parsable timestamp
allRowsTimed(item) ==
    \A i \in 1..Len(item.Rows) :
        item.Rows[i] # <<>> /\ item.Rows[i][1].kind = "time"

\* the rows no other row of the item is more recent than
mostRecentRows(item) ==
    {i \in 1..Len(item.Rows) :
        \A j \in 1..Len(item.Rows) : item.Rows[j][1].t <= item.Rows[i][1].t}

\* the value of p is the cell of its series in the row, divided by 100
\* when the point is flagged as normalized
valueFromRow(p, item, row) ==
    \E col \in 2..Min(Len(item.Cols), Len(row)) :
        /\ item.Cols[col] = p.series
        /\ toFloat64(row[col]).ok
        /\ p.value.n * toFloat64(row[col]).d
               * (IF p.normalization THEN 100 ELSE 1)
           = toFloat64(row[col]).n * p.value.d

pointFromRow(p, item, row) ==
    /\ p.timestamp = extractTime(row[1])
    /\ valueFromRow(p, item, row)

\* C15: all points emitted for a metric come from one row of its payload,
\* the row with the most recent timestamp; no value of another row is
\* emitted.
C15_OnlyMostRecentRow ==
    pmPc = "appended" =>
        \A m \in emittedMetrics : \A p \in pointsOf(m) :
            allRowsTimed(itemOf(p)) =>
                \E i \in mostRecentRows(itemOf(p)) :
                    \A q \in pointsOf(m) :
                        pointFromRow(q, itemOf(p), itemOf(p).Rows[i])

\* C16: the value of every emitted point is the raw cell divided by 100
\* when the descriptor of its metric has PercentToRatio, and the raw cell
\* unchanged otherwise; the point carries the normalization attribute
\* exactly when PercentToRatio is set.
C16_PercentToRatio ==
    pmPc = "appended" =>
        \A m \in emittedMetrics : \A p \in pointsOf(m) :
            LET item == itemOf(p)
                row == lastRow(item)
                descriptor == descriptorForMetric(pmIn.type, p.metricName)
            IN /\ p.normalization = descriptor.PercentToRatio
               /\ \E col \in 2..Min(Len(item.Cols), Len(row)) :
                     LET raw == toFloat64(row[col]) IN
                     /\ item.Cols[col] = p.series
                     /\ raw.ok
                     /\ IF descriptor.PercentToRatio
                        THEN p.value.n * raw.d * 100 = raw.n * p.value.d
                        ELSE p.value.n * raw.d = raw.n * p.value.d

\* cpu_usage of a database with the columns 2.2 and 2.5 is emitted as the
\* two points 0.022 and 0.025, both flagged as normalized
C16_Witness ==
    /\ pmPc = "appended"
    /\ pmIn.type = resourceTypeManagedDatabase
    /\ \E m \in emittedMetrics :
          /\ Len(m.points) = 2
          /\ m.points[1].metricName = <<"c", "p", "u", "_", "u", "s", "a", "g", "e">>
          /\ m.points[1].value.n * 1000 = 22 * m.points[1].value.d
          /\ m.points[2].value.n * 1000 = 25 * m.points[2].value.d
          /\ m.points[1].normalization /\ m.points[2].normalization

\* the metric record appendMetric builds for a key of the payload
emittedFor(k) == appendMetric(k, pmIn.payload[k], pmIn.type)

\* C18 as stated: with an allow-list configured, a metric is emitted only
\* if its exact raw key is in the list; with none configured, every key of
\* the payload is eligible.
C18_ExactKeyInAllowList ==
    pmPc = "appended" =>
        /\ pmIn.allowlist # <<>> =>
              \A m \in emittedMetrics :
                  \E k \in DOMAIN pmIn.payload :
                      /\ <<m>> = emittedFor(k)
                      /\ k \in Range(pmIn.allowlist)
        /\ pmIn.allowlist = <<>> =>
              \A k \in DOMAIN pmIn.payload :
                  Range(emittedFor(k)) \subseteq emittedMetrics

\* the entries of the configured list that are not blank, trimmed
allowEntries ==
    {TrimSpace(pmIn.allowlist[i]) : i \in 1..Len(pmIn.allowlist)} \ {<<>>}

\* C18: with an allow-list that has a non-blank entry, a metric is emitted
\* only if its exact raw key equals an entry of the list trimmed of
\* surrounding whitespace; with no allow-list, or one whose entries are
\* all blank, every key of the payload is eligible.
C18_AllowListFilters ==
    pmPc = "appended" =>
        /\ allowEntries # {} =>
              \A m \in emittedMetrics :
                  \E k \in DOMAIN pmIn.payload :
                      /\ <<m>> = emittedFor(k)
                      /\ k \in allowEntries
        /\ allowEntries = {} =>
              \A k \in DOMAIN pmIn.payload :
                  Range(emittedFor(k)) \subseteq emittedMetrics

\* a payload of four metrics is filtered down to the two of the list
C18_Witness ==
    /\ pmPc = "appended"
    /\ Cardinality(allowEntries) = 2
    /\ Cardinality(DOMAIN pmIn.payload) = 4
    /\ Cardinality(emittedMetrics) = 2
    /\ \A m \in emittedMetrics : m.points[1].metricName \in allowEntries

-----------------------------------------------------------------------------
(* Claims about the metric descriptors.                                    *)

\* the static table of a resource type
tableOf(resourceType) ==
    IF resourceType = resourceTypeManagedDatabase
    THEN managedDatabaseMetricDescriptors
    ELSE IF resourceType = resourceTypeManagedLoadBalancer
    THEN managedLoadBalancerMetricDescriptors
    ELSE <<>>

\* "upcloud.<type>."
ownPrefix == <<"u", "p", "c", "l", "o", "u", "d", ".">> \o typeText(dsIn.type) \o <<".">>

\* the lookup order of the claim, with key as the key that is looked up
lookupOrder(key) ==
    /\ key \in DOMAIN tableOf(dsIn.type) => dsOut = tableOf(dsIn.type)[key]
    /\ (key \notin DOMAIN tableOf(dsIn.type) /\ HasSuffix(key, usageSuffix))
       => /\ dsOut.PercentToRatio
          /\ dsOut.Unit = <<"1">>
          /\ dsOut.Name =
                ownPrefix
                \o sanitizeMetricPath(SubSeq(key, 1, Len(key) - Len(usageSuffix)))
                \o <<".", "u", "t", "i", "l", "i", "z", "a", "t", "i", "o", "n">>
    /\ (key \notin DOMAIN tableOf(dsIn.type) /\ ~HasSuffix(key, usageSuffix))
       => /\ ~dsOut.PercentToRatio
          /\ dsOut.Unit = <<"1">>
          /\ dsOut.Name = ownPrefix \o sanitizeMetricPath(key)
    /\ Len(dsOut.Name) > Len(ownPrefix)
    /\ SubSeq(dsOut.Name, 1, Len(ownPrefix)) = ownPrefix

\* C17 as stated: descriptorForMetric looks the raw key up as it is: the
\* table entry of the resource type on an exact match, otherwise the
\* utilization descriptor for a key ending in "_usage", otherwise the
\* generic descriptor; an entry of one type is never returned for the other.
C17_LookupOnRawKey == dsPc = "done" => lookupOrder(dsIn.key)

\* C17: descriptorForMetric is defined for every resource type and raw key
\* and follows the lookup order on the raw key trimmed of surrounding
\* whitespace: the table entry of the resource type on an exact match,
\* otherwise the utilization descriptor (PercentToRatio, unit "1") for a
\* key ending in "_usage", otherwise the generic descriptor (unit "1");
\* an entry of one type is never returned for the other.
C17_DescriptorLookup == dsPc = "done" => lookupOrder(TrimSpace(dsIn.key))

\* frontend_usage of a load balancer has no table entry and gets the
\* utilization descriptor
C17_Witness ==
    /\ dsPc = "done"
    /\ dsIn = [type |-> resourceTypeManagedLoadBalancer,
               key |-> <<"f", "r", "o", "n", "t", "e", "n", "d", "_", "u", "s", "a", "g", "e">>]
    /\ dsOut = metricDescriptor(
                   <<"u", "p", "c", "l", "o", "u", "d", ".", "m", "a", "n", "a", "g", "e", "d", "_", "l", "o", "a", "d", "_", "b", "a", "l", "a", "n", "c", "e", "r", ".", "f", "r", "o", "n", "t", "e", "n", "d", ".", "u", "t", "i", "l", "i", "z", "a", "t", "i", "o", "n">>,
                   <<"1">>, TRUE)

-----------------------------------------------------------------------------
(* Claims about the conversion of load balancer snapshots.                 *)

frontendsOf(root) == asArray(fieldOf(root, <<"f", "r", "o", "n", "t", "e", "n", "d", "s">>))
backendsOf(root) == asArray(fieldOf(root, <<"b", "a", "c", "k", "e", "n", "d", "s">>))
membersOf(item) == asArray(fieldOf(item, <<"m", "e", "m", "b", "e", "r", "s">>))

objectsAt(items) == {i \in 1..Len(items) : items[i].kind = "object"}

\* the sub-entities of a snapshot with their metric prefix and series label
subEntities(root) ==
    IF root.kind # "object" THEN {}
    ELSE {[prefix |-> <<"f", "r", "o", "n", "t", "e", "n", "d">>,
           series |-> <<"f", "r", "o", "n", "t", "e", "n", "d", ":">>
                          \o entityName(frontendsOf(root)[i], <<"f", "r", "o", "n", "t", "e", "n", "d">>, i - 1),
           obj |-> frontendsOf(root)[i]] : i \in objectsAt(frontendsOf(root))}
         \cup
         {[prefix |-> <<"b", "a", "c", "k", "e", "n", "d">>,
           series |-> <<"b", "a", "c", "k", "e", "n", "d", ":">>
                          \o entityName(backendsOf(root)[i], <<"b", "a", "c", "k", "e", "n", "d">>, i - 1),
           obj |-> backendsOf(root)[i]] : i \in objectsAt(backendsOf(root))}
         \cup
         UNION {
           {[prefix |-> <<"b", "a", "c", "k", "e", "n", "d", ".", "m", "e", "m", "b", "e", "r">>,
             series |-> <<"b", "a", "c", "k", "e", "n", "d", ":">>
                            \o entityName(backendsOf(root)[i], <<"b", "a", "c", "k", "e", "n", "d">>, i - 1)
                            \o <<"/", "m", "e", "m", "b", "e", "r", ":">>
                            \o entityName(membersOf(backendsOf(root)[i])[j],
                                          <<"m", "e", "m", "b", "e", "r">>, j - 1),
             obj |-> membersOf(backendsOf(root)[i])[j]] :
               j \in objectsAt(membersOf(backendsOf(root)[i]))} :
           i \in objectsAt(backendsOf(root))}

\* the fields of an object that toFloat64 takes for a number
numericFields(obj) ==
    {k \in DOMAIN obj.fields : toFloat64(obj.fields[k]).ok}

noNumericField(root) == \A e \in subEntities(root) : numericFields(e.obj) = {}

converted == snPc = "done" /\ snOut.via = "snapshot"

\* C19: the conversion of a snapshot in which no frontend, backend or
\* backend member has a numeric field returns an error and no response,
\* and the fetch that ran the conversion returns that error, not an empty
\* result.
C19_NoNumericFieldsIsError ==
    snPc = "done" =>
        /\ noNumericField(snIn.payload) =>
              /\ convertLoadBalancerSnapshotToMetricsResponse(snIn.payload).err
              /\ convertLoadBalancerSnapshotToMetricsResponse(snIn.payload)
                     .response = <<>>
        /\ (converted /\ noNumericField(snIn.payload)) =>
              /\ snOut.err
              /\ snOut.response = <<>>
              /\ snOut.conversion =
                    convertLoadBalancerSnapshotToMetricsResponse(snIn.payload)
                        .why

\* a frontend, a backend and a member without a number: the fetch fails
\* with the error of the conversion
C19_Witness ==
    /\ converted
    /\ \E e1, e2, e3 \in subEntities(snIn.payload) :
          /\ e1.prefix = <<"f", "r", "o", "n", "t", "e", "n", "d">>
          /\ e2.prefix = <<"b", "a", "c", "k", "e", "n", "d">>
          /\ e3.prefix = <<"b", "a", "c", "k", "e", "n", "d", ".", "m", "e", "m", "b", "e", "r">>
    /\ noNumericField(snIn.payload)
    /\ snOut.err /\ snOut.conversion = "no numeric metrics"

\* the (prefix, field) pairs of the numeric fields of the snapshot
numericPairs(root) ==
    UNION {{[prefix |-> e.prefix, field |-> k] : k \in numericFields(e.obj)} :
              e \in subEntities(root)}

keyOf(pair) == pair.prefix \o <<".">> \o pair.field

\* the series labels that have a value for the metric key
contributing(root, metricKey) ==
    {e.series : e \in {x \in subEntities(root) :
        \E k \in numericFields(x.obj) :
            x.prefix \o <<".">> \o k = metricKey}}

\* one key per numeric field, and every record in the tabular shape: the
\* column "time", one column per contributing series label, one row as
\* long as the columns
tabularShape ==
    /\ DOMAIN snOut.response = {keyOf(pair) : pair \in numericPairs(snIn.payload)}
    /\ \A metricKey \in DOMAIN snOut.response :
          LET item == snOut.response[metricKey] IN
          /\ item.Cols # <<>> /\ item.Cols[1] = timeLabel
          /\ \A i, j \in 2..Len(item.Cols) : item.Cols[i] = item.Cols[j] => i = j
          /\ {item.Cols[i] : i \in 2..Len(item.Cols)}
                = contributing(snIn.payload, metricKey)
          /\ Len(item.Rows) = 1
          /\ Len(item.Rows[1]) = Len(item.Cols)

\* C20 as stated: one key <prefix>.<field> per numeric field, distinct keys
\* for distinct (prefix, field) pairs, and every record in the tabular
\* shape.
C20_DistinctKeys ==
    (converted /\ ~snOut.err) =>
        /\ tabularShape
        /\ \A p1, p2 \in numericPairs(snIn.payload) :
              p1 # p2 => keyOf(p1) # keyOf(p2)

\* C20: one key <prefix>.<field> per numeric field, and every record in
\* the tabular shape; distinct (prefix, field) pairs have distinct keys,
\* except that a backend field named member.<f> has the key
\* backend.member.<f> of the member field <f>.
C20_SnapshotShape ==
    (converted /\ ~snOut.err) =>
        /\ tabularShape
        /\ \A p1, p2 \in numericPairs(snIn.payload) :
              (p1 # p2 /\ keyOf(p1) = keyOf(p2)) =>
                  \/ /\ p1.prefix = <<"b", "a", "c", "k", "e", "n", "d">>
                     /\ p2.prefix = <<"b", "a", "c", "k", "e", "n", "d", ".", "m", "e", "m", "b", "e", "r">>
                     /\ p1.field = <<"m", "e", "m", "b", "e", "r", ".">> \o p2.field
                  \/ /\ p2.prefix = <<"b", "a", "c", "k", "e", "n", "d">>
                     /\ p1.prefix = <<"b", "a", "c", "k", "e", "n", "d", ".", "m", "e", "m", "b", "e", "r">>
                     /\ p2.field = <<"m", "e", "m", "b", "e", "r", ".">> \o p1.field

\* a frontend with total_http_requests and two backends of which one has
\* current_sessions: two keys of one row each, and the backend without
\* current_sessions has no column in the record of that key
C20_Witness ==
    /\ converted /\ ~snOut.err
    /\ Len(frontendsOf(snIn.payload)) = 1 /\ Len(backendsOf(snIn.payload)) = 2
    /\ <<"f", "r", "o", "n", "t", "e", "n", "d", ".", "t", "o", "t", "a", "l", "_", "h", "t", "t", "p", "_", "r", "e", "q", "u", "e", "s", "t", "s">> \in DOMAIN snOut.response
    /\ <<"b", "a", "c", "k", "e", "n", "d", ".", "c", "u", "r", "r", "e", "n", "t", "_", "s", "e", "s", "s", "i", "o", "n", "s">> \in DOMAIN snOut.response
    /\ snOut.response[<<"b", "a", "c", "k", "e", "n", "d", ".", "c", "u", "r", "r", "e", "n", "t", "_", "s", "e", "s", "s", "i", "o", "n", "s">>].Cols
          = <<timeLabel, <<"b", "a", "c", "k", "e", "n", "d", ":", "a", "p", "i">>>>
    /\ <<"b", "a", "c", "k", "e", "n", "d", ":", "d", "b">> \in
          {e.series : e \in subEntities(snIn.payload)}
    /\ Len(snOut.response[<<"f", "r", "o", "n", "t", "e", "n", "d", ".", "t", "o", "t", "a", "l", "_", "h", "t", "t", "p", "_", "r", "e", "q", "u", "e", "s", "t", "s">>].Rows) = 1

-----------------------------------------------------------------------------
(* Claims about the pages of the database discovery.                       *)

\* a request of the pagination loop that was answered with a page
PageAnswered == lsPc = "loop" /\ requests' = requests + 1 /\ lsPc' # "returned"

\* C21: the pages are requested at the offsets 0, limit, 2*limit, ...; after
\* each page the loop stops exactly when the page has no identifier not seen
\* before or has fewer identifiers than the page size, and requests the next
\* page otherwise; a full first page is always followed by a second request.
C21_PaginationSteps ==
    /\ [][PageAnswered =>
            /\ offset = requests * limit
            /\ (lsPc' = "sort") <=> (seen' = seen \/ pageLen' < limit)
            /\ (lsPc' = "loop") <=> ~(seen' = seen \/ pageLen' < limit)
            /\ lsPc' = "loop" => offset' = offset + limit
            /\ (requests = 0 /\ pageLen' = limit) => lsPc' = "loop"]_vars
    /\ [](lsPc = "loop" => offset = requests * limit)

\* the second page is full but has nothing new, and the loop has stopped
\* after it
C21_Witness ==
    /\ lsPc = "sort" /\ requests = 2 /\ offset = limit
    /\ pageLen = limit /\ newItems = 0

-----------------------------------------------------------------------------
(* Claims about ticks that fire during a cycle.                            *)

\* C22: ticks that arrive while a cycle is running are dropped except for at
\* most one buffered tick; however many intervals a cycle overruns, the one
\* cycle that starts right after it takes that tick and leaves none pending,
\* so that no burst of cycles follows.
C22_NoTickBurst ==
    /\ [](tickC \in {0, 1})
    /\ [][(pc = "scrape" /\ pc' = "scrape"
            /\ (tickC' # tickC \/ dropped' # dropped))
          => (tickC' = 1 /\ woke' = woke /\ ticksTaken' = ticksTaken
              /\ cycleNo' = cycleNo)]_vars
    /\ [][(cycleNo' = cycleNo + 1 /\ cycleNo >= 1)
          => pendingTicks' = pendingTicks - 1]_vars
    /\ [][(cycleNo' = cycleNo + 1 /\ dropped)
          => (tickC = 1 /\ pendingTicks' = 0)]_vars

\* a cycle that overran more than one interval has returned to the select of
\* the loop, where exactly one tick is buffered
C22_Witness ==
    /\ dropped /\ pc = "tick_select" /\ tickC = 1 /\ cycleNo = 2
    /\ pendingTicks = 1

-----------------------------------------------------------------------------
(* Claims about the order of the fetches of a cycle.                       *)

\* the targets a resource type was resolved to in the cycle, as resources
resolvedResources(t) ==
    IF \E r \in resolved : r.type = t
    THEN LET r == CHOOSE r \in resolved : r.type = t
         IN [i \in 1..Len(r.targets) |-> Resource(t, r.targets[i])]
    ELSE <<>>

\* the fetches the cycle has to make, in their order
plannedFetches ==
    resolvedResources(resourceTypeManagedDatabase)
        \o resolvedResources(resourceTypeManagedLoadBalancer)

fetchErrors == SelectSeq(errs, LAMBDA e : e.kind = "fetch")

occurrences(seq, x) == Cardinality({i \in 1..Len(seq) : seq[i] = x})

\* C23: within a cycle every resolved target is fetched exactly once, one
\* after another, the database targets in ascending order and then the load
\* balancer targets in ascending order; a failed fetch adds exactly one error
\* naming its target and the later targets are still fetched.
C23_FetchOrder ==
    /\ [](cyc # "idle" =>
            /\ \A r \in resolved : IsSorted(r.targets) /\ NoDuplicates(r.targets)
            /\ Len(fetched) <= Len(plannedFetches)
            /\ fetched = SubSeq(plannedFetches, 1, Len(fetched))
            /\ inflight = 1
            /\ Len(out) + Len(fetchErrors) = Len(fetched)
            /\ \A i \in 1..Len(fetched) :
                 LET f == fetched[i] IN
                 occurrences(out, f)
                   + occurrences(errs, FetchError(f.type, f.uuid)) = 1)
    /\ [](cyc \in {"decide", "consume"} => fetched = plannedFetches)
    /\ [][Len(fetched') = Len(fetched) + 1 =>
            LET f == plannedFetches[Len(fetched) + 1] IN
            /\ fetched' = Append(fetched, f)
            /\ \/ out' = Append(out, f) /\ errs' = errs
               \/ out' = out /\ errs' = Append(errs, FetchError(f.type, f.uuid))]_vars

\* the fetch of the first database target failed, and the second database
\* target and a load balancer target were fetched after it
C23_Witness ==
    /\ cyc = "decide" /\ Len(fetched) = 3
    /\ fetched[1].type = resourceTypeManagedDatabase
    /\ fetched[2].type = resourceTypeManagedDatabase
    /\ fetched[3].type = resourceTypeManagedLoadBalancer
    /\ errs = <<FetchError(fetched[1].type, fetched[1].uuid)>>
    /\ Len(out) = 2

-----------------------------------------------------------------------------
(* Claims about the choice between the two shapes of a metrics response.   *)

\* C24: the conversion of a snapshot is attempted exactly when the payload
\* fails to decode in the tabular shape and the fetch is one of a load
\* balancer: every such load balancer fetch is converted or fails with a
\* conversion error, and no database fetch is ever converted.
C24_ConversionByResourceType ==
    snPc = "done" =>
        ((snOut.via = "snapshot")
           <=> (/\ decodeMetricsResponse(snIn.payload).err
                /\ snIn.resourceType = resourceTypeManagedLoadBalancer))

-----------------------------------------------------------------------------
(* Claims about the timestamps of a converted snapshot.                    *)

\* the sub-entity has a numeric field under the metric key
contributes(x, metricKey) ==
    \E k \in numericFields(x.obj) : x.prefix \o <<".">> \o k = metricKey

\* the timestamps of the sub-entities that contribute to a metric key
stampsOf(entities, metricKey) ==
    {parseUpdatedAt(fieldOf(x.obj, <<"u", "p", "d", "a", "t", "e", "d", "_", "a", "t">>)) :
        x \in {e \in entities : contributes(e, metricKey)}}

\* ts is the latest of stamps; the current time, which an entity without a
\* parseable updated_at gets, is later than the instants of the payload
latestOf(ts, stamps) ==
    IF \E s \in stamps : ~s.known
    THEN ~ts.known
    ELSE ts.known /\ ts \in stamps /\ \A s \in stamps : s.at <= ts.at

\* C25: in the conversion of a snapshot the timestamp of the bucket of a
\* metric key is the maximum of the timestamps of the sub-entities that gave
\* a value to the bucket, in whatever order they are traversed; the row of
\* the key carries that timestamp.
C25_BucketTimestampIsMax ==
    (snPc = "done" /\ snIn.payload.kind = "object") =>
        LET buckets == snapshotBuckets(snIn.payload)
            entities == subEntities(snIn.payload)
        IN \A metricKey \in DOMAIN buckets :
              /\ latestOf(buckets[metricKey].timestamp,
                          stampsOf(entities, metricKey))
              /\ (converted /\ ~snOut.err) =>
                    /\ metricKey \in DOMAIN snOut.response
                    /\ snOut.response[metricKey].Rows[1][1]
                         = FormatTime(buckets[metricKey].timestamp)

\* two frontends give a value to the same key, the later one first, and the
\* key's row carries the later timestamp
C25_Witness ==
    /\ converted /\ ~snOut.err
    /\ Len(frontendsOf(snIn.payload)) = 2
    /\ \A i \in 1..2 : frontendsOf(snIn.payload)[i].kind = "object"
    /\ fieldOf(frontendsOf(snIn.payload)[1], <<"u", "p", "d", "a", "t", "e", "d", "_", "a", "t">>) = Instant(2)
    /\ fieldOf(frontendsOf(snIn.payload)[2], <<"u", "p", "d", "a", "t", "e", "d", "_", "a", "t">>) = Instant(1)
    /\ snOut.response[<<"f", "r", "o", "n", "t", "e", "n", "d", ".", "t", "o", "t", "a", "l", "_", "h", "t", "t", "p", "_", "r", "e", "q", "u", "e", "s", "t", "s">>].Rows[1][1] = Instant(2)

-----------------------------------------------------------------------------
(* Claims about the points of an emitted metric.                           *)

\* the data columns of an item, in column order
dataColumns(item) == [i \in 1..(Len(item.Cols) - 1) |-> i + 1]

\* the row has a cell for the column, and the cell is not numeric
nonNumericCell(row, col) == col <= Len(row) /\ ~toFloat64(row[col]).ok

\* the row has a numeric cell for the column
numericCell(row, col) == col <= Len(row) /\ toFloat64(row[col]).ok

\* the points of m are those of the columns cols of the item of key k, in
\* that order, each with the column's label, the raw key and the column's
\* value
pointsOfColumns(m, k, cols) ==
    LET item == pmIn.payload[k]
        row == lastRow(item)
    IN /\ Len(m.points) = Len(cols)
       /\ \A i \in 1..Len(cols) :
            LET p == m.points[i] IN
            /\ p.series = item.Cols[cols[i]]
            /\ p.metricName = k
            /\ cols[i] <= Len(row)
            /\ toFloat64(row[cols[i]]).ok
            /\ p.value.n * toFloat64(row[cols[i]]).d
                   * (IF p.normalization THEN 100 ELSE 1)
               = toFloat64(row[cols[i]]).n * p.value.d

\* the metrics emitted for the payload, each with its key
emittedWithKey ==
    {e \in [key : DOMAIN pmIn.payload, metric : emittedMetrics] :
        <<e.metric>> = emittedFor(e.key)}

\* C26 as stated: an emitted metric has exactly one point for each data
\* column beyond the timestamp column, in column order, labelled with the
\* column's series label and the raw key; only a column whose value in the
\* emitted row is non-numeric yields no point.
C26_PointPerDataColumn ==
    pmPc = "appended" =>
        \A e \in emittedWithKey :
            LET item == pmIn.payload[e.key] IN
            pointsOfColumns(e.metric, e.key,
                SelectSeq(dataColumns(item),
                          LAMBDA c : ~nonNumericCell(lastRow(item), c)))

\* C26: an emitted metric has exactly one point for each data column for
\* which the emitted row has a numeric cell, in column order, labelled with
\* the column's series label and the raw key; a column whose cell is
\* non-numeric or for which the row has no cell yields no point, without an
\* error and without suppressing the points of the other columns.
C26_PointPerNumericCell ==
    pmPc = "appended" =>
        /\ \A e \in emittedWithKey :
              LET item == pmIn.payload[e.key] IN
              pointsOfColumns(e.metric, e.key,
                  SelectSeq(dataColumns(item),
                            LAMBDA c : numericCell(lastRow(item), c)))
        /\ \A k \in DOMAIN pmIn.payload :
              (allowEntries = {} \/ k \in allowEntries) =>
                  Range(emittedFor(k)) \subseteq emittedMetrics

\* the first data column of the emitted row is null and the second is
\* numeric: the metric has the one point of the second data column
C26_Witness ==
    /\ pmPc = "appended"
    /\ \E e \in emittedWithKey :
          /\ Len(pmIn.payload[e.key].Cols) = 3
          /\ lastRow(pmIn.payload[e.key]) = <<Instant(2), Null, Float(8, 1)>>
          /\ Len(e.metric.points) = 1
          /\ e.metric.points[1].series = replicaLabel

-----------------------------------------------------------------------------
(* Claims about the resource records of the batch.                         *)

\* C27: the batch gets exactly one resource record, with the provider, the
\* resource type and the identifier of the target, for a target whose fetch
\* succeeded, and none for a target whose fetch failed; the record is there
\* also when no metric of the payload is emitted.
C27_OneRecordPerFetchedTarget ==
    pmPc = "appended" =>
        IF pmIn.err
        THEN pmOut = <<>>
        ELSE /\ Len(pmOut) = 1
             /\ pmOut[1].provider = "upcloud"
             /\ pmOut[1].type = pmIn.type
             /\ pmOut[1].uuid = pmIn.uuid
             /\ (\/ DOMAIN pmIn.payload = {}
                 \/ (allowEntries # {} /\ DOMAIN pmIn.payload \cap allowEntries = {})
                 \/ \A k \in DOMAIN pmIn.payload : emittedFor(k) = <<>>)
                   => pmOut[1].metrics = <<>>

\* every key of a payload of several metrics is filtered by the allow-list,
\* and the target has its record, with no metric
C27_Witness ==
    /\ pmPc = "appended" /\ ~pmIn.err
    /\ Cardinality(DOMAIN pmIn.payload) >= 2
    /\ allowEntries # {} /\ DOMAIN pmIn.payload \cap allowEntries = {}
    /\ Len(pmOut) = 1 /\ pmOut[1].metrics = <<>> /\ pmOut[1].uuid = sA

-----------------------------------------------------------------------------
(* Claims about cycles after the cancellation.                             *)

\* C28: once Shutdown has cancelled the context of the loop, no scrape cycle
\* is started: scrapeAndConsume is not entered after the cancellation,
\* whatever the interleaving with the initial delay and with the ticks.
C28_NoCycleAfterCancel == [][ctxDone => cycleNo' = cycleNo]_vars

-----------------------------------------------------------------------------
(* Claims about the identifier lists of the discovery.                     *)

\* C29: every identifier list a discovery call returns, for a bare array
\* and for an object that wraps arrays or carries a uuid of its own, holds
\* only non-empty identifiers without surrounding whitespace, holds none
\* twice and is sorted ascending.
C29_DiscoveredIdentifiers ==
    (lsPc = "returned" /\ ~lsResult.err) =>
        /\ \A i \in 1..Len(lsResult.ids) :
              /\ lsResult.ids[i] # <<>>
              /\ TrimSpace(lsResult.ids[i]) = lsResult.ids[i]
        /\ NoDuplicates(lsResult.ids)
        /\ IsSorted(lsResult.ids)

\* the identifiers of the objects of the backend's list that have a usable
\* uuid
usableIds(b) ==
    {TrimSpace(b.items[i].uuid) :
        i \in {j \in 1..Len(b.items) :
                  b.items[j].has /\ TrimSpace(b.items[j].uuid) # <<>>}}

\* C30: against a backend that serves a fixed list in slices
\* [offset, offset + limit) the database discovery returns the identifier of
\* every object of the list that has a non-blank uuid, and the pagination
\* does not stop before the last slice has been requested, also when a slice
\* holds objects without a usable uuid or the same identifier twice.
C30_SliceDiscoveryComplete ==
    (backend.mode = "slice" /\ lsPc = "returned" /\ ~lsResult.err) =>
        /\ usableIds(backend) \subseteq Range(lsResult.ids)
        /\ requests * limit >= Len(backend.items)

=============================================================================
